---------------------------- MODULE Spec2Model ----------------------------
(***************************************************************************)
(* A model of taskman's server.py: the task ledger codec (parse_tasks,     *)
(* save_tasks and the category normalisation they call), the snapshot      *)
(* store (write_snapshot, retention, the auto-snapshot gate), restore, and *)
(* the request handlers that mutate the ledger, the notes and the          *)
(* category list.                                                          *)
(*                                                                         *)
(* Text is modelled as a sequence of atoms.  An atom is one character      *)
(* ("(", ")", "|", ",", " ", "-", "\n") or an indivisible run of           *)
(* characters that holds none of those ("created", "2024-01-01", "Buy").   *)
(* Every string operation of the source is translated to the same          *)
(* operation on atoms.                                                     *)
(***************************************************************************)
EXTENDS Integers, Sequences, FiniteSets, TLC

VARIABLES
    clock,      \* the wall clock (datetime.now()), in ticks
    cfgFile,    \* the content of STORAGE_CONFIG_FILE
    taskFiles,  \* path -> content of the file at that path, or NoFile
    topicsDirs, \* path -> the notes tree at that path, or NoFile
    catFile,    \* the content of CATEGORIES_FILE, or NoFile
    snaps,      \* recovery_dir -> the directories under <recovery_dir>/snapshots
    last,       \* what the last handler did: op, its arguments, result, log
    horizon,    \* the time at which the run under study ends
    inflight    \* request -> where a request that runs beside others stands

vars == <<clock, cfgFile, taskFiles, topicsDirs, catFile, snaps, last, horizon,
          inflight>>

---------------------------------------------------------------------------
(* Python values *)

None == <<"<None>">>
\* an optional file or directory: NoFile, or File(content)
NoFile == <<>>
File(content) == <<content>>
Content(file) == file[1]
NL == "\n"

DEFAULT_CATEGORY == <<"default">>
STATUS_OPTIONS == {<<"created">>, <<"active">>, <<"closed">>, <<"deleted">>}

\* str / list / None arguments, as normalize_category_list tells them apart
PyStr(t) == [kind |-> "str", v |-> t]
PyList(l) == [kind |-> "list", v |-> l]
PyNone == [kind |-> "none", v |-> <<>>]

---------------------------------------------------------------------------
(* Character classes and string operations *)

\* whitespace, as str.strip() and the regex class \s see it
IsSpace(a) == a \in {" ", "\t"}

\* atoms that match ^\d{4}-\d{2}-\d{2}$ as a whole
DateAtoms == {"2024-01-01", "2024-02-01", "2026-01-05"}

\* atoms made of [A-Za-z0-9_] only (the regex class \w)
WordAtoms == {"created", "active", "closed", "deleted", "urgent", "normal",
              "low", "default", "Default", "work", "Work", "home", "Buy",
              "milk", "done", "x", "y", "bogus", "tomorrow"}

LowerAtom(a) ==
    CASE a = "Default" -> "default"
      [] a = "Work" -> "work"
      [] a = "Buy" -> "buy"
      [] OTHER -> a

lower(s) == [i \in DOMAIN s |-> LowerAtom(s[i])]

Drop(s, n) == SubSeq(s, n + 1, Len(s))

startswith(s, p) == Len(s) >= Len(p) /\ SubSeq(s, 1, Len(p)) = p

RECURSIVE lstrip(_)
lstrip(s) == IF s # <<>> /\ IsSpace(Head(s)) THEN lstrip(Tail(s)) ELSE s

RECURSIVE rstrip(_)
rstrip(s) ==
    IF s # <<>> /\ IsSpace(s[Len(s)]) THEN rstrip(SubSeq(s, 1, Len(s) - 1)) ELSE s

strip(s) == rstrip(lstrip(s))

RECURSIVE lstrip_char(_, _)
lstrip_char(s, c) == IF s # <<>> /\ Head(s) = c THEN lstrip_char(Tail(s), c) ELSE s

\* the least index of sep in s, 0 when there is none
RECURSIVE IndexFrom(_, _, _)
IndexFrom(s, sep, i) ==
    IF i > Len(s) THEN 0 ELSE IF s[i] = sep THEN i ELSE IndexFrom(s, sep, i + 1)

RECURSIVE split(_, _)
split(s, sep) ==
    LET i == IndexFrom(s, sep, 1)
    IN  IF i = 0 THEN <<s>> ELSE <<SubSeq(s, 1, i - 1)>> \o split(Drop(s, i), sep)

RECURSIVE join(_, _)
join(parts, sep) ==
    IF parts = <<>> THEN <<>>
    ELSE IF Len(parts) = 1 THEN parts[1]
    ELSE parts[1] \o <<sep>> \o join(Tail(parts), sep)

\* re.sub(r'[|()]+', '-', s): each maximal run of | ( ) becomes one '-'
RECURSIVE sub_delims(_)
sub_delims(s) ==
    IF s = <<>> THEN <<>>
    ELSE IF Head(s) \in {"|", "(", ")"}
         THEN IF Len(s) >= 2 /\ s[2] \in {"|", "(", ")"}
              THEN sub_delims(Tail(s))
              ELSE <<"-">> \o sub_delims(Tail(s))
         ELSE <<Head(s)>> \o sub_delims(Tail(s))

is_date(value) ==
    \/ Len(value) = 1 /\ value[1] \in DateAtoms
    \/ Len(value) = 2 /\ value[1] \in DateAtoms /\ value[2] = NL

\* datetime.now().strftime('%Y-%m-%d'): every run of the model is within one day
Today == <<"2026-01-05">>

---------------------------------------------------------------------------
(* Category normalisation *)

normalize_category_name(value) ==
    IF value.kind # "str" THEN <<>>
    ELSE LET name == strip(value.v)
         IN  IF name = <<>> THEN <<>>
             ELSE strip(lstrip_char(sub_delims(name), "-"))

RECURSIVE CleanCategories(_, _, _)
CleanCategories(items, cleaned, seen) ==
    IF items = <<>> THEN cleaned
    ELSE LET name == normalize_category_name(Head(items))
             key == lower(name)
         IN  IF name = <<>> \/ key \in seen
             THEN CleanCategories(Tail(items), cleaned, seen)
             ELSE CleanCategories(Tail(items), Append(cleaned, name), seen \cup {key})

\* a list's items are Python values already; a str is split at the commas
CategoryItems(values) ==
    IF values.kind = "str"
    THEN LET parts == split(values.v, ",")
         IN  [i \in DOMAIN parts |-> PyStr(parts[i])]
    ELSE IF values.kind = "list" THEN values.v ELSE <<>>

\* a normalisation without the fallback to the default category
normalize_category_list_no_fallback(values) ==
    CleanCategories(CategoryItems(values), <<>>, {})

normalize_category_list(values) ==
    LET cleaned == CleanCategories(CategoryItems(values), <<>>, {})
    IN  IF cleaned = <<>> THEN <<DEFAULT_CATEGORY>> ELSE cleaned

StrList(names) == PyList([i \in DOMAIN names |-> PyStr(names[i])])

RECURSIVE ResolveCategories(_, _, _, _)
ResolveCategories(normalized, allowed, resolved, seen) ==
    IF normalized = <<>> THEN resolved
    ELSE LET name == Head(normalized)
             \* allowed_lookup = {cat.lower(): cat}: the last entry of a key wins
             hits == {i \in DOMAIN allowed : lower(allowed[i]) = lower(name)}
             match == IF hits = {} THEN <<>>
                      ELSE allowed[CHOOSE i \in hits : \A j \in hits : j <= i]
         IN  IF match = <<>> \/ lower(match) \in seen
             THEN ResolveCategories(Tail(normalized), allowed, resolved, seen)
             ELSE ResolveCategories(Tail(normalized), allowed,
                                    Append(resolved, match),
                                    seen \cup {lower(match)})

\* allowed_categories is None (or empty) when allowed = <<>>
normalize_task_categories(value, allowed) ==
    LET normalized == normalize_category_list(value)
    IN  IF allowed = <<>> THEN normalized
        ELSE LET resolved == ResolveCategories(normalized, allowed, <<>>, {})
                 hits == {i \in DOMAIN allowed : lower(allowed[i]) = DEFAULT_CATEGORY}
             IN  IF resolved # <<>> THEN resolved
                 ELSE IF hits = {} THEN <<DEFAULT_CATEGORY>>
                 ELSE <<allowed[CHOOSE i \in hits : \A j \in hits : j <= i]>>

---------------------------------------------------------------------------
(* Task file I/O *)

\* f.readlines() followed by rstrip('\n') on each line
readlines(text) ==
    LET parts == split(text, NL)
    IN  IF parts[Len(parts)] = <<>> THEN SubSeq(parts, 1, Len(parts) - 1) ELSE parts

RECURSIVE LeadingSpaces(_)
LeadingSpaces(s) ==
    IF s # <<>> /\ IsSpace(Head(s)) THEN 1 + LeadingSpaces(Tail(s)) ELSE 0

\* the tail \s+(.+)$ of both header patterns, on what follows the ')':
\* \s+ is greedy and gives one character back when nothing else is left
PatternTail(rest) ==
    LET w == LeadingSpaces(rest)
    IN  IF w < 1 \/ Len(rest) < 2 THEN [ok |-> FALSE, description |-> <<>>]
        ELSE IF w = Len(rest) THEN [ok |-> TRUE, description |-> <<rest[Len(rest)]>>]
        ELSE [ok |-> TRUE, description |-> Drop(rest, w)]

\* TASK_PATTERN = ^\(([^)]+)\)\s+(.+)$
TASK_PATTERN(line) ==
    LET close == IndexFrom(line, ")", 1)
        tail == PatternTail(Drop(line, close))
    IN  IF line # <<>> /\ Head(line) = "(" /\ close >= 3 /\ tail.ok
        THEN [ok |-> TRUE, header |-> SubSeq(line, 2, close - 1),
              description |-> tail.description]
        ELSE [ok |-> FALSE, header |-> <<>>, description |-> <<>>]

\* LEGACY_PATTERN = ^\((\w+)\)\s+(.+)$
LEGACY_PATTERN(line) ==
    LET m == TASK_PATTERN(line)
    IN  IF m.ok /\ \A i \in DOMAIN m.header : m.header[i] \in WordAtoms
        THEN m
        ELSE [ok |-> FALSE, header |-> <<>>, description |-> <<>>]

CLOSING_PREFIX == <<" ", " ", " ", " ", "[closing_remarks]", " ">>
INDENT == <<" ", " ", " ", " ">>

\* a decoder that takes every non-empty fourth field for the due date
HeaderTask_field4_always_due(parts, description, task_id) ==
    LET candidate == IF Len(parts) >= 4 THEN strip(parts[4]) ELSE <<>>
    IN  [id |-> task_id, status |-> parts[1], priority |-> parts[2],
         date |-> parts[3],
         due_date |-> IF candidate # <<>> THEN candidate ELSE None,
         description |-> description,
         categories |-> normalize_task_categories(
                            IF Len(parts) >= 5
                            THEN PyStr(join(SubSeq(parts, 5, Len(parts)), "|"))
                            ELSE PyNone, <<>>),
         closing_remarks |-> None]

\* the task a header with at least three fields starts (lines 485-509)
HeaderTask(parts, description, task_id) ==
    LET candidate == IF Len(parts) >= 4 THEN strip(parts[4]) ELSE <<>>
        dated == Len(parts) >= 4 /\ candidate # <<>> /\ is_date(candidate)
        categories_raw ==
            IF Len(parts) < 4 THEN PyNone
            ELSE IF candidate = <<>> \/ dated
                 THEN IF Len(parts) >= 5
                      THEN PyStr(join(SubSeq(parts, 5, Len(parts)), "|"))
                      ELSE PyNone
                 ELSE PyStr(join(SubSeq(parts, 4, Len(parts)), "|"))
    IN  [id |-> task_id, status |-> parts[1], priority |-> parts[2],
         date |-> parts[3], due_date |-> IF dated THEN candidate ELSE None,
         description |-> description,
         categories |-> normalize_task_categories(categories_raw, <<>>),
         closing_remarks |-> None]

\* a decoder that leaves the date of a legacy task empty
LegacyTask_without_date(status, description, task_id) ==
    [id |-> task_id, status |-> status, priority |-> <<"normal">>, date |-> <<>>,
     due_date |-> None, description |-> strip(description),
     categories |-> <<DEFAULT_CATEGORY>>, closing_remarks |-> None]

LegacyTask(status, description, task_id) ==
    [id |-> task_id, status |-> status, priority |-> <<"normal">>, date |-> Today,
     due_date |-> None, description |-> strip(description),
     categories |-> <<DEFAULT_CATEGORY>>, closing_remarks |-> None]

\* n times the same task: tasks.append(current_task) appends a reference, so a
\* task appended while it stays current shows its later lines in every copy
Copies(task, n) == [i \in 1 .. n |-> task]

\* a decoder that stays in closing-remarks mode over a line that is not indented
ParseMatched_mode_kept(st, line, tm, lm, has) ==
    LET parts == split(tm.header, "|")
        \* lines 478-481: any match of TASK_PATTERN clears the flag and appends
        \* the current task, also when the header has fewer than three fields
        st1 == IF tm.ok
               THEN [st EXCEPT !.in_closing_remarks = FALSE,
                               !.appended = @ + (IF has THEN 1 ELSE 0)]
               ELSE st
        \* lines 514-517: a legacy match appends it (again)
        st2 == [st1 EXCEPT !.in_closing_remarks = FALSE,
                           !.appended = @ + (IF has THEN 1 ELSE 0)]
        Start(s, task) ==
            [tasks |-> IF has THEN s.tasks \o Copies(s.current[1], s.appended)
                       ELSE s.tasks,
             current |-> <<task>>, appended |-> 0, task_id |-> s.task_id + 1,
             in_closing_remarks |-> FALSE]
    IN  IF strip(line) = <<>> /\ ~has THEN st
        ELSE IF tm.ok /\ Len(parts) >= 3
        THEN Start(st1, HeaderTask(parts, tm.description, st.task_id))
        ELSE IF lm.ok
        THEN Start(st2, LegacyTask(lm.header, lm.description, st.task_id))
        ELSE IF startswith(line, INDENT) /\ has
        THEN IF startswith(line, CLOSING_PREFIX)
             THEN [st1 EXCEPT !.in_closing_remarks = TRUE,
                              !.current[1].closing_remarks =
                                  Drop(line, Len(CLOSING_PREFIX))]
             ELSE IF st1.in_closing_remarks
             THEN [st1 EXCEPT !.current[1].closing_remarks =
                                  @ \o <<NL>> \o Drop(line, Len(INDENT))]
             ELSE [st1 EXCEPT !.current[1].description =
                                  @ \o <<NL>> \o Drop(line, Len(INDENT))]
        ELSE st1

\* The loop body of parse_tasks on one line, tm and lm being the matches of the
\* two header patterns on it.  st.current is <<>> or <<task>>; st.appended
\* counts the times the current task is in the list already.
ParseMatched(st, line, tm, lm, has) ==
    LET parts == split(tm.header, "|")
        \* lines 478-481: any match of TASK_PATTERN clears the flag and appends
        \* the current task, also when the header has fewer than three fields
        st1 == IF tm.ok
               THEN [st EXCEPT !.in_closing_remarks = FALSE,
                               !.appended = @ + (IF has THEN 1 ELSE 0)]
               ELSE st
        \* lines 514-517: a legacy match appends it (again)
        st2 == [st1 EXCEPT !.in_closing_remarks = FALSE,
                           !.appended = @ + (IF has THEN 1 ELSE 0)]
        Start(s, task) ==
            [tasks |-> IF has THEN s.tasks \o Copies(s.current[1], s.appended)
                       ELSE s.tasks,
             current |-> <<task>>, appended |-> 0, task_id |-> s.task_id + 1,
             in_closing_remarks |-> FALSE]
    IN  IF strip(line) = <<>> /\ ~has THEN st
        ELSE IF tm.ok /\ Len(parts) >= 3
        THEN Start(st1, HeaderTask(parts, tm.description, st.task_id))
        ELSE IF lm.ok
        THEN Start(st2, LegacyTask(lm.header, lm.description, st.task_id))
        ELSE IF startswith(line, INDENT) /\ has
        THEN IF startswith(line, CLOSING_PREFIX)
             THEN [st1 EXCEPT !.in_closing_remarks = TRUE,
                              !.current[1].closing_remarks =
                                  Drop(line, Len(CLOSING_PREFIX))]
             ELSE IF st1.in_closing_remarks
             THEN [st1 EXCEPT !.current[1].closing_remarks =
                                  @ \o <<NL>> \o Drop(line, Len(INDENT))]
             ELSE [st1 EXCEPT !.current[1].description =
                                  @ \o <<NL>> \o Drop(line, Len(INDENT))]
        ELSE [st1 EXCEPT !.in_closing_remarks = FALSE]

ParseLine(st, line) ==
    ParseMatched(st, line, TASK_PATTERN(line), LEGACY_PATTERN(line), st.current # <<>>)

RECURSIVE ParseLines(_, _)
ParseLines(st, lines) ==
    IF lines = <<>> THEN st ELSE ParseLines(ParseLine(st, Head(lines)), Tail(lines))

\* lines 544-545: the task that is current at the end of the file is appended
Flush(st) ==
    IF st.current # <<>>
    THEN st.tasks \o Copies(st.current[1], st.appended + 1)
    ELSE st.tasks

\* parse_tasks on the tasks file (NoFile: the file does not exist)
parse_tasks(file) ==
    IF file = NoFile THEN <<>>
    ELSE Flush(ParseLines([tasks |-> <<>>, current |-> <<>>, appended |-> 0,
                           task_id |-> 0, in_closing_remarks |-> FALSE],
                          readlines(Content(file))))

RECURSIVE Concat(_)
Concat(texts) == IF texts = <<>> THEN <<>> ELSE Head(texts) \o Concat(Tail(texts))

Falsy(v) == v = None \/ v = <<>>

\* the lines of one task, categories being its normalized category names
TaskText(task, categories, due_date, closing_remarks) ==
    LET due_segment == IF Falsy(due_date) THEN <<>> ELSE due_date
        cat_segment == IF categories # <<>>
                       THEN <<"|">> \o join(categories, ",")
                       ELSE <<>>
        head3 == <<"(">> \o task.status \o <<"|">> \o task.priority
                 \o <<"|">> \o task.date
        header == IF categories # <<>> \/ ~Falsy(due_date)
                  THEN head3 \o <<"|">> \o due_segment \o cat_segment \o <<")">>
                  ELSE head3 \o <<")">>
        desc_lines == split(task.description, NL)
        rem_lines == split(closing_remarks, NL)
    IN  header \o <<" ">> \o desc_lines[1] \o <<NL>>
        \o Concat([i \in 1 .. Len(desc_lines) - 1 |->
                      INDENT \o desc_lines[i + 1] \o <<NL>>])
        \o (IF closing_remarks = <<>> THEN <<>>
            ELSE CLOSING_PREFIX \o rem_lines[1] \o <<NL>>
                 \o Concat([i \in 1 .. Len(rem_lines) - 1 |->
                               INDENT \o rem_lines[i + 1] \o <<NL>>]))

TaskLines(task) ==
    TaskText(task, normalize_task_categories(StrList(task.categories), <<>>),
             task.due_date,
             IF Falsy(task.closing_remarks) THEN <<>> ELSE task.closing_remarks)

\* the content save_tasks writes
save_tasks(tasks) == Concat([i \in DOMAIN tasks |-> TaskLines(tasks[i])])

---------------------------------------------------------------------------
(* Bounds of the model *)

\* the clock stops here; every attempt to write a snapshot takes one tick
MaxTime == 5
\* ticks per second: snapshot ids carry a timestamp of one-second granularity
TicksPerSecond == 2
\* The least snapshot_retention_count normalized_storage_config lets through.
\* The source's floor is 10 (line 154); the model scales it down, retention
\* and restore being the same for every count.
MinRetention == 2
\* the most tasks a create request adds to
MaxTasks == 2
\* the clock of GateSpec stops here
MaxGateTime == 4
\* the clock of RequestSpec stops here
MaxRequestTime == 3
\* the longest file of body lines that is decoded
MaxBodyLines == 6
\* the longest category name, in atoms, that is normalised
MaxNameLen == 3
\* the clock of SnapshotIdSpec stops here
MaxIdTime == 2

---------------------------------------------------------------------------
(* Storage configuration *)

TasksFiles == {"tasks/tasks.md", "alt/tasks.md"}
TopicsDirs == {"topics"}
RecoveryDirs == {"recovery"}

default_storage_config ==
    [tasks_file |-> "tasks/tasks.md", topics_dir |-> "topics",
     recovery_dir |-> "recovery", auto_snapshot_enabled |-> TRUE,
     auto_snapshot_interval_seconds |-> 1,
     snapshot_retention_count |-> MinRetention]

Max(a, b) == IF a >= b THEN a ELSE b

\* the clamping of the two numbers (normalize_int with minimum / maximum);
\* paths and the flag are taken from well-formed requests
normalized_storage_config(data) ==
    [data EXCEPT !.auto_snapshot_interval_seconds = Max(0, @),
                 !.snapshot_retention_count = Max(MinRetention, @)]

\* STORAGE_CONFIG_FILE exists from start-up on and holds a normalized
\* configuration, which json.load and normalized_storage_config give back
load_storage_config(w) == w.cfg

---------------------------------------------------------------------------
(* The world a handler runs in, and the log of what it did *)

World ==
    [clock |-> clock, cfg |-> cfgFile, tasks |-> taskFiles, topics |-> topicsDirs,
     cats |-> catFile, snaps |-> snaps, log |-> <<>>]

Log(w, event) == [w EXCEPT !.log = Append(@, event)]

---------------------------------------------------------------------------
(* Snapshot helpers *)

SnapshotIdTaken(dirs, candidate) == \E d \in dirs : d.id = candidate

\* the decimal numeral of a small number, one atom
Numerals == <<"0", "1", "2", "3", "4", "5", "6", "7", "8", "9">>
str(n) == Numerals[n + 1]

\* datetime.now().strftime('%Y%m%d_%H%M%S'): the second the clock is in
Timestamp(now) == str(now \div TicksPerSecond)

\* an allocation whose suffixes start at 2
next_snapshot_id_from_two(dirs, prefix, now) ==
    LET base == <<prefix, "_", Timestamp(now)>>
        free(k) == ~SnapshotIdTaken(dirs, base \o <<"_", str(k)>>)
        suffix == CHOOSE k \in 2 .. Cardinality(dirs) + 2 :
                      free(k) /\ \A j \in 2 .. k - 1 : ~free(j)
    IN  IF ~SnapshotIdTaken(dirs, base) THEN base
        ELSE base \o <<"_", str(suffix)>>

next_snapshot_id(dirs, prefix, now) ==
    LET base == <<prefix, "_", Timestamp(now)>>
        free(k) == ~SnapshotIdTaken(dirs, base \o <<"_", str(k)>>)
        suffix == CHOOSE k \in 1 .. Cardinality(dirs) + 1 :
                      free(k) /\ \A j \in 1 .. k - 1 : ~free(j)
    IN  IF ~SnapshotIdTaken(dirs, base) THEN base
        ELSE base \o <<"_", str(suffix)>>

\* a listing that offers only the automatic snapshots for eviction
StaleSnapshots_auto_only(dirs, retain) ==
    {d \in dirs : /\ d.metadata # NoFile
                  /\ Content(d.metadata).mode = "auto"
                  /\ Cardinality({e \in dirs : e.mtime > d.mtime}) >= retain}

\* the directories entries[retain:] of the listing sorted by mtime, newest first
StaleSnapshots(dirs, retain) ==
    {d \in dirs : Cardinality({e \in dirs : e.mtime > d.mtime}) >= retain}

\* retention that keeps one directory more than the count
enforce_snapshot_retention_one_more(config, dirs) ==
    dirs \ StaleSnapshots(dirs, config.snapshot_retention_count + 1)

enforce_snapshot_retention(config, dirs) ==
    dirs \ StaleSnapshots(dirs, config.snapshot_retention_count)

AutoCreatedAt(dirs) ==
    {Content(d.metadata).created_at :
        d \in {e \in dirs : e.metadata # NoFile /\ Content(e.metadata).mode = "auto"}}

\* a gate that counts the snapshots of every mode
should_create_auto_snapshot_any_mode(config, dirs, now) ==
    LET min_interval == config.auto_snapshot_interval_seconds
        times == {Content(d.metadata).created_at : d \in {e \in dirs : e.metadata # NoFile}}
    IN  IF ~config.auto_snapshot_enabled THEN FALSE
        ELSE IF min_interval <= 0 THEN TRUE
        ELSE IF times = {} THEN TRUE
        ELSE \A t \in times : now - t >= min_interval * TicksPerSecond

\* a gate that does not look at auto_snapshot_enabled
should_create_auto_snapshot_flag_ignored(config, dirs, now) ==
    LET min_interval == config.auto_snapshot_interval_seconds
        autos == AutoCreatedAt(dirs)
        latest_auto == CHOOSE t \in autos : \A u \in autos : u <= t
    IN  IF min_interval <= 0 THEN TRUE
        ELSE IF autos = {} THEN TRUE
        ELSE now - latest_auto >= min_interval * TicksPerSecond

should_create_auto_snapshot(config, dirs, now) ==
    LET min_interval == config.auto_snapshot_interval_seconds
        autos == AutoCreatedAt(dirs)
        latest_auto == CHOOSE t \in autos : \A u \in autos : u <= t
    IN  IF ~config.auto_snapshot_enabled THEN FALSE
        ELSE IF min_interval <= 0 THEN TRUE
        ELSE IF autos = {} THEN TRUE
        ELSE now - latest_auto >= min_interval * TicksPerSecond

\* Where a filesystem call of write_snapshot raises OSError: nowhere, at the
\* creation of the snapshot directory, or in copytree of the notes.
SnapshotFaults == {"none", "mkdir", "copytree"}

SnapshotDir(w, snapshot_id, mode, trigger, complete) ==
    LET config == load_storage_config(w)
        tasks_file == config.tasks_file
        topics_dir == config.topics_dir
    IN  [id |-> snapshot_id,
         mtime |-> w.clock,
         tasks_md |-> w.tasks[tasks_file],
         runnning_md |-> NoFile,
         storage_config |-> File(w.cfg),
         categories |-> w.cats,
         topics |-> IF ~complete THEN NoFile
                    ELSE IF w.topics[topics_dir] # NoFile THEN w.topics[topics_dir]
                    ELSE File({}),
         open |-> NoFile,
         metadata |-> IF ~complete THEN NoFile
                      ELSE File([id |-> snapshot_id, created_at |-> w.clock,
                                 mode |-> mode, trigger |-> trigger,
                                 recovery_dir |-> config.recovery_dir,
                                 tasks_file |-> tasks_file,
                                 topics_dir |-> topics_dir,
                                 includes_storage_config |-> TRUE,
                                 includes_categories |-> w.cats # NoFile])]

\* a write_snapshot that makes its directory with exist_ok=True
write_snapshot_over_any_directory(w, snapshot_id, mode, trigger, fault) ==
    LET config == load_storage_config(w)
        root == config.recovery_dir
        dirs == {d \in w.snaps[root] : d.id # snapshot_id}
        after == [w EXCEPT !.clock = @ + 1]
    IN  IF fault = "mkdir"
        THEN [w |-> Log(after, "snapshot_failed"), ok |-> FALSE]
        ELSE IF fault = "copytree"
        THEN [w |-> Log([after EXCEPT !.snaps[root] =
                            dirs \cup {SnapshotDir(w, snapshot_id, mode, trigger, FALSE)}],
                        "snapshot_failed"),
              ok |-> FALSE]
        ELSE [w |-> Log([after EXCEPT !.snaps[root] =
                            enforce_snapshot_retention(config,
                                dirs \cup {SnapshotDir(w, snapshot_id, mode, trigger, TRUE)})],
                        "snapshot_written"),
              ok |-> TRUE]

\* write_snapshot: the world after it and whether it returned (ok) or raised
write_snapshot(w, snapshot_id, mode, trigger, fault) ==
    LET config == load_storage_config(w)
        root == config.recovery_dir
        dirs == w.snaps[root]
        after == [w EXCEPT !.clock = @ + 1]
    IN  IF fault = "mkdir" \/ SnapshotIdTaken(dirs, snapshot_id)
        THEN [w |-> Log(after, "snapshot_failed"), ok |-> FALSE]
        ELSE IF fault = "copytree"
        THEN [w |-> Log([after EXCEPT !.snaps[root] =
                            dirs \cup {SnapshotDir(w, snapshot_id, mode, trigger, FALSE)}],
                        "snapshot_failed"),
              ok |-> FALSE]
        ELSE [w |-> Log([after EXCEPT !.snaps[root] =
                            enforce_snapshot_retention(config,
                                dirs \cup {SnapshotDir(w, snapshot_id, mode, trigger, TRUE)})],
                        "snapshot_written"),
              ok |-> TRUE]

\* datetime.isoformat() of the time t: the seconds, and the fraction of the
\* second unless it is zero (isoformat leaves out a zero microsecond)
isoformat(t) ==
    IF t % TicksPerSecond = 0 THEN <<t \div TicksPerSecond>>
    ELSE <<t \div TicksPerSecond, t % TicksPerSecond>>

\* a < b for two strings, field by field; a proper prefix is the smaller
StrLess(a, b) ==
    \E k \in 0 .. Len(a) :
        /\ k <= Len(b)
        /\ \A i \in 1 .. k : a[i] = b[i]
        /\ \/ k = Len(a) /\ k < Len(b)
           \/ k < Len(a) /\ k < Len(b) /\ a[k + 1] < b[k + 1]

\* a listing that never opens metadata.json
SnapshotRecord_from_directory(config, d) ==
    [id |-> d.id, created_at |-> isoformat(d.mtime), mode |-> "unknown",
     recovery_dir |-> config.recovery_dir]

\* the record of one snapshot directory: the synthesized one, updated with
\* metadata.json if the directory has it
SnapshotRecord(config, d) ==
    IF d.metadata # NoFile
    THEN [Content(d.metadata) EXCEPT !.created_at = isoformat(@)]
    ELSE [id |-> d.id, created_at |-> isoformat(d.mtime), mode |-> "unknown",
          recovery_dir |-> config.recovery_dir]

\* results.sort(key=created_at, reverse=True)
RECURSIVE NewestFirst(_)
NewestFirst(records) ==
    IF records = {} THEN <<>>
    ELSE LET first == CHOOSE r \in records :
                          \A q \in records : ~StrLess(r.created_at, q.created_at)
         IN  <<first>> \o NewestFirst(records \ {first})

list_snapshots(w) ==
    LET config == load_storage_config(w)
    IN  NewestFirst({SnapshotRecord(config, d) : d \in w.snaps[config.recovery_dir]})

\* a gate that swallows the OSError of its snapshot
create_auto_snapshot_ignoring_errors(w, trigger, fault) ==
    LET config == load_storage_config(w)
        dirs == w.snaps[config.recovery_dir]
        gated == Log(w, "gate")
    IN  IF ~should_create_auto_snapshot(config, dirs, w.clock)
        THEN [w |-> gated, ok |-> TRUE]
        ELSE [w |-> write_snapshot(gated, next_snapshot_id(dirs, "auto", w.clock),
                                   "auto", trigger, fault).w,
              ok |-> TRUE]

\* create_auto_snapshot_if_needed: ok is FALSE when it raised OSError
create_auto_snapshot_if_needed(w, trigger, fault) ==
    LET config == load_storage_config(w)
        dirs == w.snaps[config.recovery_dir]
        gated == Log(w, "gate")
    IN  IF ~should_create_auto_snapshot(config, dirs, w.clock)
        THEN [w |-> gated, ok |-> TRUE]
        ELSE write_snapshot(gated, next_snapshot_id(dirs, "auto", w.clock),
                            "auto", trigger, fault)

\* characters outside [A-Za-z0-9_-]
UnsafeIdAtoms == {"(", ")", "|", ",", " ", "\t", NL, "/", "..", "[closing_remarks]"}

\* SNAPSHOT_NAME_PATTERN = ^[A-Za-z0-9_-]+$ ; '$' also matches before a final "\n"
SNAPSHOT_NAME_PATTERN(snapshot_id) ==
    LET body == IF snapshot_id # <<>> /\ snapshot_id[Len(snapshot_id)] = NL
                THEN SubSeq(snapshot_id, 1, Len(snapshot_id) - 1)
                ELSE snapshot_id
    IN  body # <<>> /\ \A i \in DOMAIN body : body[i] \notin UnsafeIdAtoms

RestoreModes == {"revert", "full"}

\* a restore that replaces the notes tree in revert mode as well
ApplySnapshot_notes_in_every_mode(w, source, mode) ==
    LET config == load_storage_config(w)
        src == source[1]
        w1 == IF source # <<>> /\ src.tasks_md # NoFile
              THEN Log([w EXCEPT !.tasks[config.tasks_file] = src.tasks_md],
                       "write_ledger")
              ELSE w
        w3 == Log([w1 EXCEPT !.topics[config.topics_dir] =
                      IF source # <<>> /\ src.topics # NoFile THEN src.topics
                      ELSE File({})],
                  "write_notes")
    IN  w3

\* a restore that moves the snapshot's ledger to the live place instead of
\* copying it
ApplySnapshot_moving_the_ledger(w, source, mode) ==
    LET config == load_storage_config(w)
        src == source[1]
    IN  IF source # <<>> /\ src.tasks_md # NoFile
        THEN Log([w EXCEPT !.tasks[config.tasks_file] = src.tasks_md,
                           !.snaps[config.recovery_dir] =
                               {IF d.id = src.id THEN [d EXCEPT !.tasks_md = NoFile]
                                ELSE d : d \in @}],
                 "write_ledger")
        ELSE w

\* the statements of restore_snapshot after the safety backup (lines 798-823);
\* source is <<>> when the snapshot directory is no longer there
ApplySnapshot(w, source, mode) ==
    LET config == load_storage_config(w)
        has_dir == source # <<>>
        src == source[1]
        source_tasks == IF ~has_dir THEN NoFile
                        ELSE IF src.tasks_md # NoFile THEN src.tasks_md
                        ELSE src.runnning_md
        source_topics == IF ~has_dir THEN NoFile
                         ELSE IF src.topics # NoFile THEN src.topics
                         ELSE src.open
        source_storage_config == IF has_dir THEN src.storage_config ELSE NoFile
        source_categories == IF has_dir THEN src.categories ELSE NoFile
        w1 == IF source_tasks # NoFile
              THEN Log([w EXCEPT !.tasks[config.tasks_file] = source_tasks],
                       "write_ledger")
              ELSE w
        w2 == IF w1.topics[config.topics_dir] # NoFile
              THEN Log([w1 EXCEPT !.topics[config.topics_dir] = NoFile],
                       "delete_notes")
              ELSE w1
        w3 == Log([w2 EXCEPT !.topics[config.topics_dir] =
                      IF source_topics # NoFile THEN source_topics ELSE File({})],
                  "write_notes")
        w4 == IF source_storage_config # NoFile
              THEN Log([w3 EXCEPT !.cfg = Content(source_storage_config)],
                       "write_config")
              ELSE w3
        w5 == IF source_categories # NoFile
              THEN Log([w4 EXCEPT !.cats = source_categories], "write_categories")
              ELSE w4
    IN  IF mode = "full" THEN w5 ELSE w1

\* the apply phase of a restore stopped by an OSError: <<>> if the failing
\* statement is not reached, else the world it leaves.  restore_copy2 fails
\* the copy of the ledger (line 810), before it writes; restore_copytree fails
\* the copy of the notes tree (line 817) after the rmtree of the live one,
\* when it has made the directory and copied nothing into it.
InterruptedApply(w, source, mode, fault) ==
    LET config == load_storage_config(w)
        has_dir == source # <<>>
        src == source[1]
        has_tasks == has_dir /\ (src.tasks_md # NoFile \/ src.runnning_md # NoFile)
        has_topics == has_dir /\ (src.topics # NoFile \/ src.open # NoFile)
        w1 == ApplySnapshot(w, source, "revert")
        w2 == IF w1.topics[config.topics_dir] # NoFile
              THEN Log([w1 EXCEPT !.topics[config.topics_dir] = NoFile],
                       "delete_notes")
              ELSE w1
    IN  IF fault = "restore_copy2" /\ has_tasks
        THEN <<Log(w, "apply_failed")>>
        ELSE IF fault = "restore_copytree" /\ mode = "full" /\ has_topics
        THEN <<Log([w2 EXCEPT !.topics[config.topics_dir] = File({})], "apply_failed")>>
        ELSE <<>>

\* a restore that puts the live files back as they were when its apply phase
\* fails
restore_snapshot_rolling_back(w, snapshot_id, mode, fault) ==
    LET config == load_storage_config(w)
        root == config.recovery_dir
        found == {d \in w.snaps[root] : d.id = snapshot_id}
        backup_id == next_snapshot_id(w.snaps[root], "pre_restore", w.clock)
        backup == write_snapshot(w, backup_id, "pre-restore", "before-restore", fault)
        left == {d \in backup.w.snaps[root] : d.id = snapshot_id}
        source == IF left = {} THEN <<>> ELSE <<CHOOSE d \in left : TRUE>>
        stopped == InterruptedApply(backup.w, source, mode, fault)
    IN  IF ~SNAPSHOT_NAME_PATTERN(snapshot_id) THEN [w |-> w, result |-> "invalid_id"]
        ELSE IF mode \notin RestoreModes THEN [w |-> w, result |-> "invalid_mode"]
        ELSE IF found = {} THEN [w |-> w, result |-> "not_found"]
        ELSE IF ~backup.ok THEN [w |-> backup.w, result |-> "storage_error"]
        ELSE IF stopped # <<>>
        THEN [w |-> [backup.w EXCEPT !.log = stopped[1].log], result |-> "storage_error"]
        ELSE [w |-> ApplySnapshot(backup.w, source, mode), result |-> "ok"]

\* a restore that writes the live files first and takes its backup afterwards
restore_snapshot_backup_last(w, snapshot_id, mode, fault) ==
    LET root == load_storage_config(w).recovery_dir
        found == {d \in w.snaps[root] : d.id = snapshot_id}
        applied == ApplySnapshot(w, <<CHOOSE d \in found : TRUE>>, mode)
        backup == write_snapshot(applied,
                      next_snapshot_id(w.snaps[root], "pre_restore", w.clock),
                      "pre-restore", "before-restore", fault)
    IN  IF ~SNAPSHOT_NAME_PATTERN(snapshot_id) THEN [w |-> w, result |-> "invalid_id"]
        ELSE IF mode \notin RestoreModes THEN [w |-> w, result |-> "invalid_mode"]
        ELSE IF found = {} THEN [w |-> w, result |-> "not_found"]
        ELSE IF ~backup.ok THEN [w |-> backup.w, result |-> "storage_error"]
        ELSE [w |-> backup.w, result |-> "ok"]

\* a restore that looks for the snapshot directory before it checks the request
restore_snapshot_existence_first(w, snapshot_id, mode, fault) ==
    LET root == load_storage_config(w).recovery_dir
        found == {d \in w.snaps[root] : d.id = snapshot_id}
        backup == write_snapshot(w, next_snapshot_id(w.snaps[root], "pre_restore", w.clock),
                                 "pre-restore", "before-restore", fault)
        left == {d \in backup.w.snaps[root] : d.id = snapshot_id}
        source == IF left = {} THEN <<>> ELSE <<CHOOSE d \in left : TRUE>>
    IN  IF found = {} THEN [w |-> w, result |-> "not_found"]
        ELSE IF mode \notin RestoreModes THEN [w |-> w, result |-> "invalid_mode"]
        ELSE IF ~SNAPSHOT_NAME_PATTERN(snapshot_id) THEN [w |-> w, result |-> "invalid_id"]
        ELSE IF ~backup.ok THEN [w |-> backup.w, result |-> "storage_error"]
        ELSE [w |-> ApplySnapshot(backup.w, source, mode), result |-> "ok"]

restore_snapshot(w, snapshot_id, mode, fault) ==
    LET config == load_storage_config(w)
        root == config.recovery_dir
        found == {d \in w.snaps[root] : d.id = snapshot_id}
        backup_id == next_snapshot_id(w.snaps[root], "pre_restore", w.clock)
        backup == write_snapshot(w, backup_id, "pre-restore", "before-restore", fault)
        \* the snapshot directory as it is after the backup and its retention
        left == {d \in backup.w.snaps[root] : d.id = snapshot_id}
        source == IF left = {} THEN <<>> ELSE <<CHOOSE d \in left : TRUE>>
        stopped == InterruptedApply(backup.w, source, mode, fault)
    IN  IF ~SNAPSHOT_NAME_PATTERN(snapshot_id) THEN [w |-> w, result |-> "invalid_id"]
        ELSE IF mode \notin RestoreModes THEN [w |-> w, result |-> "invalid_mode"]
        ELSE IF found = {} THEN [w |-> w, result |-> "not_found"]
        ELSE IF ~backup.ok THEN [w |-> backup.w, result |-> "storage_error"]
        ELSE IF stopped # <<>> THEN [w |-> stopped[1], result |-> "storage_error"]
        ELSE [w |-> ApplySnapshot(backup.w, source, mode), result |-> "ok"]

---------------------------------------------------------------------------
(* The category list file *)

save_categories(w, categories) ==
    LET normalized == normalize_category_list(StrList(categories))
        ordered == <<DEFAULT_CATEGORY>>
                   \o SelectSeq(normalized, LAMBDA cat : lower(cat) # DEFAULT_CATEGORY)
    IN  [w |-> Log([w EXCEPT !.cats = File(ordered)], "write_categories"),
         categories |-> ordered]

\* ensure_categories_file, then the list read back through save_categories
load_categories(w) ==
    save_categories(w, IF w.cats = NoFile THEN <<DEFAULT_CATEGORY>> ELSE Content(w.cats))

get_default_category(category_list) ==
    LET hits == {i \in DOMAIN category_list : lower(category_list[i]) = DEFAULT_CATEGORY}
    IN  IF hits = {} THEN DEFAULT_CATEGORY
        ELSE category_list[CHOOSE i \in hits : \A j \in hits : i <= j]

LowerSet(names) == {lower(names[i]) : i \in DOMAIN names}

RECURSIVE MissingCategories(_, _)
MissingCategories(names, lookup) ==
    IF names = <<>> THEN <<>>
    ELSE LET name == normalize_category_name(PyStr(Head(names)))
         IN  IF name = <<>> \/ lower(name) \in lookup
             THEN MissingCategories(Tail(names), lookup)
             ELSE <<name>> \o MissingCategories(Tail(names), lookup \cup {lower(name)})

sync_categories_from_tasks(w, tasks) ==
    LET loaded == load_categories(w)
        names == Concat([i \in DOMAIN tasks |-> tasks[i].categories])
        added == MissingCategories(names, LowerSet(loaded.categories))
    IN  IF added = <<>> THEN loaded
        ELSE save_categories(loaded.w, loaded.categories \o added)

---------------------------------------------------------------------------
(* Handlers: each gives the world after it and its result *)

Ledger(w) == w.tasks[load_storage_config(w).tasks_file]

Notes(w) == w.topics[load_storage_config(w).topics_dir]

WriteLedger(w, tasks) ==
    Log([w EXCEPT !.tasks[load_storage_config(w).tasks_file] = File(save_tasks(tasks))],
        "write_ledger")

HasTask(tasks, task_id) == \E i \in DOMAIN tasks : tasks[i].id = task_id

\* target[...] = ... on the task found: the list holds the same object wherever
\* parse_tasks appended it, so every entry of that id changes
Mutate(tasks, task_id, changed) ==
    [i \in DOMAIN tasks |-> IF tasks[i].id = task_id THEN changed[i] ELSE tasks[i]]

RECURSIVE MaxId(_)
MaxId(tasks) ==
    IF tasks = <<>> THEN -1 ELSE Max(Head(tasks).id, MaxId(Tail(tasks)))

\* MCP tool create_task
create_task(w, description0, status0, priority0, due_date0, category, fault) ==
    LET description == strip(description0)
        status == lower(strip(status0))
        priority == lower(strip(priority0))
        due_date == IF Falsy(due_date0) THEN due_date0 ELSE strip(due_date0)
        gate == create_auto_snapshot_if_needed(w, "task-create", fault)
        loaded == load_categories(gate.w)
        categories == loaded.categories
        chosen_category == IF ~Falsy(category)
                           THEN normalize_category_name(PyStr(category))
                           ELSE get_default_category(categories)
        tasks == parse_tasks(Ledger(loaded.w))
        new_task == [id |-> MaxId(tasks) + 1, status |-> status,
                     priority |-> priority, date |-> Today, due_date |-> due_date,
                     description |-> description,
                     categories |-> normalize_task_categories(
                                        StrList(<<chosen_category>>), categories),
                     closing_remarks |-> None]
    IN  IF description = <<>> THEN [w |-> w, result |-> "validation"]
        ELSE IF status \notin STATUS_OPTIONS THEN [w |-> w, result |-> "validation"]
        ELSE IF priority \notin {<<"urgent">>, <<"normal">>, <<"low">>}
        THEN [w |-> w, result |-> "validation"]
        ELSE IF ~Falsy(due_date0) /\ ~is_date(due_date)
        THEN [w |-> w, result |-> "validation"]
        ELSE IF ~gate.ok THEN [w |-> gate.w, result |-> "snapshot_failed"]
        ELSE IF lower(chosen_category) \notin LowerSet(categories)
        THEN [w |-> loaded.w, result |-> "validation"]
        ELSE [w |-> WriteLedger(loaded.w, Append(tasks, new_task)), result |-> "ok"]

\* a set_task_status that saves the ledger before it takes the automatic
\* snapshot
set_task_status_snapshot_last(w, tasks, task_id, status0, fault) ==
    LET status == lower(strip(status0))
        written == WriteLedger(w, Mutate(tasks, task_id,
                                   [i \in DOMAIN tasks |->
                                       [tasks[i] EXCEPT !.status = status]]))
        gate == create_auto_snapshot_if_needed(written, "task-update", fault)
    IN  IF status \notin STATUS_OPTIONS THEN [w |-> w, result |-> "validation"]
        ELSE IF ~HasTask(tasks, task_id) THEN [w |-> w, result |-> "not_found"]
        ELSE IF ~gate.ok THEN [w |-> gate.w, result |-> "snapshot_failed"]
        ELSE [w |-> gate.w, result |-> "ok"]

\* MCP tool set_task_status
set_task_status_write(w, tasks, task_id, status0, fault) ==
    LET status == lower(strip(status0))
        gate == create_auto_snapshot_if_needed(w, "task-update", fault)
    IN  IF status \notin STATUS_OPTIONS THEN [w |-> w, result |-> "validation"]
        ELSE IF ~HasTask(tasks, task_id) THEN [w |-> w, result |-> "not_found"]
        ELSE IF ~gate.ok THEN [w |-> gate.w, result |-> "snapshot_failed"]
        ELSE [w |-> WriteLedger(gate.w,
                        Mutate(tasks, task_id,
                               [i \in DOMAIN tasks |->
                                   [tasks[i] EXCEPT !.status = status]])),
              result |-> "ok"]

\* tasks = parse_tasks() (line 959), then the rest
set_task_status(w, task_id, status0, fault) ==
    set_task_status_write(w, parse_tasks(Ledger(w)), task_id, status0, fault)

\* MCP tool close_task
close_task(w, task_id, closing_remarks, fault) ==
    LET tasks == parse_tasks(Ledger(w))
        gate == create_auto_snapshot_if_needed(w, "task-close", fault)
        remarks == IF Falsy(closing_remarks) THEN <<>> ELSE strip(closing_remarks)
        change(t) == [t EXCEPT !.status = <<"closed">>,
                               !.closing_remarks = IF remarks # <<>> THEN remarks ELSE @]
    IN  IF ~HasTask(tasks, task_id) THEN [w |-> w, result |-> "not_found"]
        ELSE IF ~gate.ok THEN [w |-> gate.w, result |-> "snapshot_failed"]
        ELSE [w |-> WriteLedger(gate.w, Mutate(tasks, task_id,
                               [i \in DOMAIN tasks |-> change(tasks[i])])),
              result |-> "ok"]

\* re.sub(r'[^\w\-]', '_', name.strip()) or 'untitled'
SafeName(name) ==
    LET trimmed == strip(name)
        safe == [i \in DOMAIN trimmed |->
                    IF trimmed[i] \in WordAtoms \cup {"-", "_"} THEN trimmed[i] ELSE "_"]
    IN  IF safe = <<>> THEN <<"untitled">> ELSE safe

\* A requested file path is NoFile (none given) or File([inside, file]): whether
\* it lies inside the notes folder, and its base name.
\* The notes tree is the set of its files, [filename, content].
\* (f"{today.year}_{today.month}_{today.day}_" is the atom "2026_1_5_".)
_create_note_internal(w, name, content, filepath) ==
    LET dir == load_storage_config(w).topics_dir
        requested == Content(filepath)
        filename == IF filepath # NoFile
                    THEN IF requested.file[Len(requested.file)] = ".md"
                         THEN requested.file ELSE requested.file \o <<".md">>
                    ELSE <<"2026_1_5_">>
                         \o SafeName(IF name = <<>> THEN <<"untitled">> ELSE name)
                         \o <<".md">>
        tree == IF w.topics[dir] = NoFile THEN {} ELSE Content(w.topics[dir])
    IN  IF filepath # NoFile /\ ~requested.inside
        THEN [w |-> w, result |-> "validation"]
        ELSE IF \E f \in tree : f.filename = filename
        THEN [w |-> w, result |-> "conflict"]
        ELSE [w |-> Log([w EXCEPT !.topics[dir] =
                            File(tree \cup {[filename |-> filename,
                                             content |-> content]})],
                        "write_note"),
              result |-> "ok"]

\* MCP tool create_note
create_note(w, name0, content, filepath, fault) ==
    LET name == strip(name0)
        gate == create_auto_snapshot_if_needed(w, "topic-create", fault)
    IN  IF name = <<>> THEN [w |-> w, result |-> "validation"]
        ELSE IF ~gate.ok THEN [w |-> gate.w, result |-> "snapshot_failed"]
        ELSE _create_note_internal(gate.w, name, strip(content), filepath)

\* POST /api/topics
create_topic(w, name, content, filepath, fault) ==
    LET gate == create_auto_snapshot_if_needed(w, "topic-create", fault)
    IN  IF ~gate.ok THEN [w |-> gate.w, result |-> "snapshot_failed"]
        ELSE _create_note_internal(gate.w, name, content, filepath)

\* PUT /api/topics/<filename>
put_topic_content(w, filename, content) ==
    LET dir == load_storage_config(w).topics_dir
        tree == IF w.topics[dir] = NoFile THEN {} ELSE Content(w.topics[dir])
    IN  IF ~\E f \in tree : f.filename = filename THEN [w |-> w, result |-> "not_found"]
        ELSE [w |-> Log([w EXCEPT !.topics[dir] =
                            File({IF f.filename = filename
                                  THEN [f EXCEPT !.content = content] ELSE f :
                                  f \in tree})],
                        "write_note"),
              result |-> "ok"]

\* POST /api/tasks; data holds the request's values after data.get's defaults
create_task_api_write(w, tasks, data, fault) ==
    LET gate == create_auto_snapshot_if_needed(w, "task-create", fault)
        loaded == load_categories(gate.w)
        new_task == [id |-> MaxId(tasks) + 1, status |-> data.status,
                     priority |-> data.priority, date |-> Today,
                     due_date |-> data.due_date, description |-> data.description,
                     categories |-> normalize_task_categories(data.categories,
                                                              loaded.categories),
                     closing_remarks |-> None]
    IN  IF ~gate.ok THEN [w |-> gate.w, result |-> "snapshot_failed"]
        ELSE [w |-> WriteLedger(loaded.w, Append(tasks, new_task)), result |-> "ok"]

\* tasks = parse_tasks() (line 1382), then the rest
create_task_api(w, data, fault) ==
    create_task_api_write(w, parse_tasks(Ledger(w)), data, fault)

\* PUT /api/tasks/<task_id>; data is a function on the keys the request holds
update_task(w, task_id, data, fault) ==
    LET tasks == parse_tasks(Ledger(w))
        loaded == load_categories(w)
        gate == create_auto_snapshot_if_needed(loaded.w, "task-update", fault)
        has(key) == key \in DOMAIN data
        val == IF Falsy(data["closing_remarks"]) THEN <<>>
               ELSE strip(data["closing_remarks"])
        change(t) ==
            [t EXCEPT !.status = IF has("status") THEN data["status"] ELSE @,
                      !.priority = IF has("priority") THEN data["priority"] ELSE @,
                      !.description = IF has("description") THEN data["description"] ELSE @,
                      !.due_date = IF has("due_date") THEN data["due_date"] ELSE @,
                      !.categories = IF has("categories")
                                     THEN normalize_task_categories(data["categories"],
                                                                    loaded.categories)
                                     ELSE @,
                      !.closing_remarks = IF has("closing_remarks")
                                          THEN IF val # <<>> THEN val ELSE None
                                          ELSE @]
    IN  IF ~HasTask(tasks, task_id) THEN [w |-> loaded.w, result |-> "not_found"]
        ELSE IF ~gate.ok THEN [w |-> gate.w, result |-> "snapshot_failed"]
        ELSE [w |-> WriteLedger(gate.w, Mutate(tasks, task_id,
                               [i \in DOMAIN tasks |-> change(tasks[i])])),
              result |-> "ok"]

\* a delete that takes its automatic snapshot before it looks for the task
delete_task_gate_first(w, task_id, fault) ==
    LET tasks == parse_tasks(Ledger(w))
        gate == create_auto_snapshot_if_needed(w, "task-delete", fault)
    IN  IF ~gate.ok THEN [w |-> gate.w, result |-> "snapshot_failed"]
        ELSE IF ~HasTask(tasks, task_id) THEN [w |-> gate.w, result |-> "not_found"]
        ELSE [w |-> WriteLedger(gate.w,
                        Mutate(tasks, task_id,
                               [i \in DOMAIN tasks |->
                                   [tasks[i] EXCEPT !.status = <<"deleted">>]])),
              result |-> "ok"]

\* DELETE /api/tasks/<task_id>
delete_task(w, task_id, fault) ==
    LET tasks == parse_tasks(Ledger(w))
        gate == create_auto_snapshot_if_needed(w, "task-delete", fault)
    IN  IF ~HasTask(tasks, task_id) THEN [w |-> w, result |-> "not_found"]
        ELSE IF ~gate.ok THEN [w |-> gate.w, result |-> "snapshot_failed"]
        ELSE [w |-> WriteLedger(gate.w,
                        Mutate(tasks, task_id,
                               [i \in DOMAIN tasks |->
                                   [tasks[i] EXCEPT !.status = <<"deleted">>]])),
              result |-> "ok"]

\* GET /api/tasks and GET /api/categories
get_tasks(w) ==
    [w |-> sync_categories_from_tasks(w, parse_tasks(Ledger(w))).w, result |-> "ok"]

\* POST /api/categories
create_category(w, name0) ==
    LET name == normalize_category_name(PyStr(name0))
        loaded == load_categories(w)
    IN  IF name = <<>> THEN [w |-> w, result |-> "validation"]
        ELSE IF lower(name) \in LowerSet(loaded.categories)
        THEN [w |-> loaded.w, result |-> "conflict"]
        ELSE [w |-> save_categories(loaded.w, Append(loaded.categories, name)).w,
              result |-> "ok"]

\* PUT /api/categories/<category_name>
rename_category(w, category_name, name0) ==
    LET old_name == normalize_category_name(PyStr(category_name))
        new_name == normalize_category_name(PyStr(name0))
        loaded == load_categories(w)
        categories == loaded.categories
        tasks == parse_tasks(Ledger(loaded.w))
        replaced(t) ==
            [i \in DOMAIN t.categories |->
                IF lower(normalize_category_name(PyStr(t.categories[i]))) = lower(old_name)
                THEN new_name ELSE t.categories[i]]
        renamed == [i \in DOMAIN tasks |->
                       [tasks[i] EXCEPT !.categories =
                           normalize_task_categories(StrList(replaced(tasks[i])), <<>>)]]
        saved == save_categories(loaded.w,
                     [i \in DOMAIN categories |->
                         IF lower(categories[i]) = lower(old_name)
                         THEN new_name ELSE categories[i]])
    IN  IF old_name = <<>> \/ new_name = <<>> THEN [w |-> w, result |-> "validation"]
        ELSE IF lower(old_name) = DEFAULT_CATEGORY THEN [w |-> w, result |-> "validation"]
        ELSE IF lower(new_name) = DEFAULT_CATEGORY THEN [w |-> w, result |-> "validation"]
        ELSE IF lower(old_name) \notin LowerSet(categories)
        THEN [w |-> loaded.w, result |-> "not_found"]
        ELSE IF lower(new_name) \in LowerSet(categories) /\ lower(new_name) # lower(old_name)
        THEN [w |-> loaded.w, result |-> "conflict"]
        ELSE [w |-> WriteLedger(saved.w, renamed), result |-> "ok"]

\* a delete that lets the default category through
delete_category_default_too(w, category_name) ==
    LET target == normalize_category_name(PyStr(category_name))
        loaded == load_categories(w)
        categories == loaded.categories
        tasks == parse_tasks(Ledger(loaded.w))
        remaining(t) ==
            SelectSeq(t.categories,
                      LAMBDA cat : lower(normalize_category_name(PyStr(cat))) # lower(target))
        pruned == [i \in DOMAIN tasks |->
                      [tasks[i] EXCEPT !.categories =
                          normalize_task_categories(StrList(remaining(tasks[i])), <<>>)]]
        saved == save_categories(loaded.w,
                     SelectSeq(categories, LAMBDA cat : lower(cat) # lower(target)))
    IN  IF target = <<>> THEN [w |-> w, result |-> "validation"]
        ELSE IF lower(target) \notin LowerSet(categories)
        THEN [w |-> loaded.w, result |-> "not_found"]
        ELSE [w |-> WriteLedger(saved.w, pruned), result |-> "ok"]

\* DELETE /api/categories/<category_name>
delete_category(w, category_name) ==
    LET target == normalize_category_name(PyStr(category_name))
        loaded == load_categories(w)
        categories == loaded.categories
        tasks == parse_tasks(Ledger(loaded.w))
        remaining(t) ==
            SelectSeq(t.categories,
                      LAMBDA cat : lower(normalize_category_name(PyStr(cat))) # lower(target))
        pruned == [i \in DOMAIN tasks |->
                      [tasks[i] EXCEPT !.categories =
                          normalize_task_categories(StrList(remaining(tasks[i])), <<>>)]]
        saved == save_categories(loaded.w,
                     SelectSeq(categories, LAMBDA cat : lower(cat) # lower(target)))
    IN  IF target = <<>> THEN [w |-> w, result |-> "validation"]
        ELSE IF lower(target) = DEFAULT_CATEGORY THEN [w |-> w, result |-> "validation"]
        ELSE IF lower(target) \notin LowerSet(categories)
        THEN [w |-> loaded.w, result |-> "not_found"]
        ELSE [w |-> WriteLedger(saved.w, pruned), result |-> "ok"]

\* ensure_storage_targets: the directories, and an empty tasks file if none is there
ensure_storage_targets(w, config) ==
    [w EXCEPT !.tasks[config.tasks_file] = IF @ = NoFile THEN File(<<>>) ELSE @,
              !.topics[config.topics_dir] = IF @ = NoFile THEN File({}) ELSE @]

\* PUT /api/storage; data is a function on the keys the request holds
update_storage(w, data) ==
    LET existing == load_storage_config(w)
        merged == [key \in DOMAIN existing |->
                      IF key \in DOMAIN data THEN data[key] ELSE existing[key]]
        config == normalized_storage_config(merged)
    IN  [w |-> Log([ensure_storage_targets(w, config) EXCEPT !.cfg = config],
                   "write_config"),
         result |-> "ok"]

\* POST /api/snapshots
create_snapshot(w, fault) ==
    LET dirs == w.snaps[load_storage_config(w).recovery_dir]
        written == write_snapshot(w, next_snapshot_id(dirs, "snapshot", w.clock),
                                  "manual", "manual", fault)
    IN  [w |-> written.w, result |-> IF written.ok THEN "ok" ELSE "storage_error"]

\* POST /api/snapshots/<snapshot_id>/restore
restore_snapshot_api(w, snapshot_id, mode, fault) ==
    restore_snapshot(w, snapshot_id, mode, fault)

---------------------------------------------------------------------------
(* The state machine *)

\* the state after start-up: load_storage_config wrote the defaults and
\* ensure_storage_targets made the tasks file and the directories
StartUp(end) ==
    /\ horizon = end
    /\ clock = 0
    /\ cfgFile = default_storage_config
    /\ taskFiles = [path \in TasksFiles |->
                       IF path = default_storage_config.tasks_file
                       THEN File(<<>>) ELSE NoFile]
    /\ topicsDirs = [dir \in TopicsDirs |-> File({})]
    /\ catFile = NoFile
    /\ snaps = [dir \in RecoveryDirs |-> {}]

\* no request runs beside another: each handler runs from its first line to
\* its last before the next starts
OneAtATime == inflight = <<>>

Init ==
    /\ StartUp(MaxTime)
    /\ OneAtATime
    /\ last = [op |-> "start", args |-> <<>>, result |-> "ok", log |-> <<>>,
               before |-> <<>>, evicted |-> {}]

\* the live files a restore may touch, as they are before it
LiveState(w) ==
    [ledger |-> Ledger(w), notes |-> Notes(w), categories |-> w.cats, config |-> w.cfg]

NoArgs == <<>>

\* One handler run: r is what the handler returned for the current World.  A
\* request takes at least one tick (writing a snapshot is what takes it, when
\* the handler writes one).  last keeps what the run was given, what it
\* returned, the order of its file operations and the snapshot directories it
\* removed.
Ran(op, args, r) ==
    /\ clock < horizon
    /\ clock' = IF r.w.clock > clock THEN r.w.clock ELSE clock + 1
    /\ cfgFile' = r.w.cfg
    /\ taskFiles' = r.w.tasks
    /\ topicsDirs' = r.w.topics
    /\ catFile' = r.w.cats
    /\ snaps' = r.w.snaps
    /\ last' = [op |-> op, args |-> args, result |-> r.result, log |-> r.w.log,
                before |-> IF op = "restore_snapshot" /\ r.result = "ok"
                           THEN <<LiveState(World)>> ELSE <<>>,
                evicted |-> UNION {snaps[root] \ r.w.snaps[root] : root \in RecoveryDirs}]
    /\ UNCHANGED horizon

\* a handler that runs alone, from its first line to its last
Handled(op, args, r) == Ran(op, args, r) /\ UNCHANGED inflight

\* time passes between requests
Tick ==
    /\ clock < horizon
    /\ clock' = clock + 1
    /\ last' = [op |-> "tick", args |-> NoArgs, result |-> "ok", log |-> <<>>,
                before |-> <<>>, evicted |-> {}]
    /\ UNCHANGED <<cfgFile, taskFiles, topicsDirs, catFile, snaps, horizon, inflight>>

SnapshotDirs == snaps[cfgFile.recovery_dir]

TaskCount == Len(parse_tasks(Ledger(World)))
TaskIds == 0 .. MaxTasks - 1

\* The values the requests of the model carry

\* where the automatic snapshot of a request fails, if it does
GateFaults == {"none", "mkdir"}

\* where a restore fails: in its safety backup or in its apply phase
RestoreFaults == GateFaults \cup {"restore_copy2", "restore_copytree"}

MissingId == <<"snapshot", "_", "missing">>
BadId == <<"..", "/", "x">>
RequestIds == {MissingId, BadId}
RequestModes == {"revert", "full", "bogus"}

\* requests that move the tasks file and switch the gate off, or ask for a
\* retention count below the floor
StorageRequests ==
    {[tasks_file |-> "alt/tasks.md", auto_snapshot_enabled |-> FALSE],
     [tasks_file |-> "tasks/tasks.md", snapshot_retention_count |-> 1]}

Work == <<"work">>

ApiTask(description, categories) ==
    [status |-> <<"created">>, priority |-> <<"normal">>, due_date |-> None,
     description |-> description, categories |-> categories]

ApiTasks == {ApiTask(<<"Buy", " ", "milk">>, PyStr(Work))}

Descriptions == {<<"Call", " ", "home">>, <<" ">>}

TaskUpdates == {[priority |-> <<"high">>]}

CreateSnapshot ==
    \E fault \in SnapshotFaults :
        Handled("create_snapshot", NoArgs, create_snapshot(World, fault))

\* GET /api/snapshots
ListSnapshots ==
    Handled("list_snapshots", NoArgs, [w |-> World, result |-> list_snapshots(World)])

\* a request names a snapshot directory that is there, or one that is not
RestoreSnapshot ==
    \E snapshot_id \in {d.id : d \in SnapshotDirs} \cup RequestIds,
       mode \in RequestModes, fault \in RestoreFaults :
        Handled("restore_snapshot", [snapshot_id |-> snapshot_id, mode |-> mode],
                restore_snapshot_api(World, snapshot_id, mode, fault))

UpdateStorage ==
    \E data \in StorageRequests :
        Handled("update_storage", NoArgs, update_storage(World, data))

CreateTaskApi ==
    /\ TaskCount < MaxTasks
    /\ \E data \in ApiTasks, fault \in GateFaults :
           Handled("create_task_api", NoArgs, create_task_api(World, data, fault))

UpdateTask ==
    \E task_id \in TaskIds, data \in TaskUpdates, fault \in GateFaults :
        Handled("update_task", [task_id |-> task_id, data |-> data],
                update_task(World, task_id, data, fault))

DeleteTask ==
    \E task_id \in TaskIds, fault \in GateFaults :
        Handled("delete_task", [task_id |-> task_id], delete_task(World, task_id, fault))

CreateTask ==
    /\ TaskCount < MaxTasks
    /\ \E description \in Descriptions, fault \in GateFaults :
           Handled("create_task", NoArgs,
                   create_task(World, description, <<"created">>, <<"normal">>,
                               None, None, fault))

SetTaskStatus ==
    \E task_id \in TaskIds, fault \in GateFaults :
        Handled("set_task_status", [task_id |-> task_id, status |-> <<"active">>],
                set_task_status(World, task_id, <<"active">>, fault))

\* remarks to trim, of two lines, and with a line that starts with the marker
CloseRemarks ==
    {<<" ", "done", " ">>,
     <<"done", NL, "x">>,
     <<"done", NL, "[closing_remarks]", " ", "x">>}

CloseTask ==
    \E task_id \in TaskIds, closing_remarks \in CloseRemarks, fault \in GateFaults :
        Handled("close_task", [task_id |-> task_id, closing_remarks |-> closing_remarks],
                close_task(World, task_id, closing_remarks, fault))

CreateNote ==
    \E fault \in GateFaults :
        Handled("create_note", NoArgs,
                create_note(World, <<"y">>, <<"x">>, NoFile, fault))

CreateTopic ==
    \E fault \in GateFaults :
        Handled("create_topic", NoArgs,
                create_topic(World, <<"x">>, <<"x">>, NoFile, fault))

CreateCategory == Handled("create_category", NoArgs, create_category(World, Work))

\* a rename of a category, of the default category, and to the default category
RenameCategory ==
    \E args \in {[category_name |-> Work, name |-> <<"home">>],
                  [category_name |-> <<"Default">>, name |-> <<"home">>],
                  [category_name |-> Work, name |-> <<" ", "Default">>]} :
        Handled("rename_category", args,
                rename_category(World, args.category_name, args.name))

DeleteCategory ==
    \E category_name \in {Work, <<"Default">>, <<"default", " ">>} :
        Handled("delete_category", [category_name |-> category_name],
                delete_category(World, category_name))

\* a manual snapshot and the revert to a snapshot, nothing failing
TakeSnapshot == Handled("create_snapshot", NoArgs, create_snapshot(World, "none"))

RevertSnapshot ==
    \E d \in SnapshotDirs :
        Handled("restore_snapshot", [snapshot_id |-> d.id, mode |-> "revert"],
                restore_snapshot_api(World, d.id, "revert", "none"))

SwitchGate ==
    Handled("update_storage", NoArgs,
            update_storage(World, [auto_snapshot_enabled |-> ~cfgFile.auto_snapshot_enabled]))

---------------------------------------------------------------------------
(* Spec: the snapshot store and restore.  Requests that take and restore   *)
(* snapshots, move the tasks file and switch the gate, and one request of  *)
(* each kind that changes the ledger and the notes.                        *)

Next ==
    \/ Tick
    \/ CreateSnapshot
    \/ ListSnapshots
    \/ RestoreSnapshot
    \/ UpdateStorage
    \/ CreateTaskApi
    \/ CreateTopic

Spec == Init /\ [][Next]_vars

---------------------------------------------------------------------------
(* GateSpec: the handlers that change the ledger and the notes, with the   *)
(* automatic snapshot of each either written or failing.                   *)

NextGate ==
    \/ Tick
    \/ TakeSnapshot
    \/ RevertSnapshot
    \/ SwitchGate
    \/ CreateTask
    \/ SetTaskStatus
    \/ CloseTask
    \/ CreateNote
    \/ CreateTopic
    \/ CreateTaskApi
    \/ UpdateTask
    \/ DeleteTask
    \/ CreateCategory
    \/ RenameCategory
    \/ DeleteCategory

InitGate ==
    /\ StartUp(MaxGateTime)
    /\ OneAtATime
    /\ last = [op |-> "start", args |-> <<>>, result |-> "ok", log |-> <<>>,
               before |-> <<>>, evicted |-> {}]

GateSpec == InitGate /\ [][NextGate]_vars

---------------------------------------------------------------------------
(* CodecSpec: save_tasks and parse_tasks on lists of tasks that respect    *)
(* the data model.                                                         *)

\* multi-line texts among them: a blank line inside, and a line that starts
\* with the marker of the closing remarks
CodecDescriptions ==
    {<<"Buy", " ", "milk">>,
     <<"Buy", NL, "milk">>,
     <<"Buy", NL, NL, "milk">>,
     <<"Buy", NL, "[closing_remarks]", " ", "done">>}

CodecRemarks == {None, <<"done">>, <<"done", NL, "x">>}

CodecCategories == {<<DEFAULT_CATEGORY>>, <<<<"work">>, <<"home">>>>}

CodecDueDates == {None, <<"2024-02-01">>}

CodecTask(task_id) ==
    {[id |-> task_id, status |-> <<"created">>, priority |-> <<"normal">>,
      date |-> <<"2024-01-01">>, due_date |-> due_date,
      description |-> description, categories |-> categories,
      closing_remarks |-> closing_remarks] :
        due_date \in CodecDueDates, description \in CodecDescriptions,
        categories \in CodecCategories, closing_remarks \in CodecRemarks}

\* the lists of at most MaxTasks tasks, their ids 0 .. n - 1 in order
RECURSIVE CodecLists(_)
CodecLists(n) ==
    IF n = 0 THEN {<<>>}
    ELSE CodecLists(n - 1)
         \cup {Append(tasks, task) :
                   tasks \in {l \in CodecLists(n - 1) : Len(l) = n - 1},
                   task \in CodecTask(n - 1)}

InitCodec ==
    /\ StartUp(MaxTime)
    /\ OneAtATime
    /\ \E tasks \in CodecLists(MaxTasks) :
           last = [op |-> "tasks", args |-> tasks, result |-> "ok", log |-> <<>>,
                   before |-> <<>>, evicted |-> {}]

SaveTasks ==
    /\ last.op = "tasks"
    /\ Handled("save_tasks", last.args,
               [w |-> WriteLedger(World, last.args), result |-> "ok"])

ParseTasks ==
    /\ last.op = "save_tasks"
    /\ Handled("parse_tasks", last.args,
               [w |-> World, result |-> parse_tasks(Ledger(World))])

NextCodec ==
    \/ SaveTasks
    \/ ParseTasks

CodecSpec == InitCodec /\ [][NextCodec]_vars

---------------------------------------------------------------------------
(* Properties of restore (Spec)                                            *)

---------------------------------------------------------------------------
(* DecodeSpec: parse_tasks on tasks files written by hand or by an older   *)
(* version: headers of three to six fields and legacy lines.               *)

\* what a header holds after status|priority|date: nothing, or a fourth
\* field (empty, blank, a date, a date between blanks, a category, a word
\* that is neither) and the fields after it
HeaderTails ==
    {<<>>}
    \cup {<<field4>> \o rest :
              field4 \in {<<>>, <<" ">>, <<"2024-02-01">>, <<" ", "2024-02-01", " ">>,
                          <<"work">>, <<"tomorrow">>},
              rest \in {<<>>, <<<<"work">>>>, <<<<"work">>, <<"home">>>>,
                        <<<<"Work", ",", "home">>>>}}

DecodeLines ==
    {[kind |-> "header",
      fields |-> <<<<"active">>, <<"normal">>, <<"2024-01-01">>>> \o tail,
      description |-> <<"Buy", " ", "milk">>] : tail \in HeaderTails}
    \cup {[kind |-> "legacy", fields |-> <<status>>, description |-> description] :
              status \in {<<"created">>, <<"bogus">>},
              description \in {<<"Buy", " ", "milk">>, <<"Buy", " ", "milk", " ">>}}

\* the files of one to MaxTasks such lines
RECURSIVE DecodeFiles(_)
DecodeFiles(n) ==
    IF n = 0 THEN {<<>>}
    ELSE {<<line>> \o file : line \in DecodeLines, file \in DecodeFiles(n - 1)}
         \cup (IF n > 1 THEN DecodeFiles(n - 1) ELSE {})

\* the lines of a task body: a header, a line indented by four spaces, the
\* line that starts the closing remarks, a line that is not indented, and an
\* empty line
ModeLines ==
    {[kind |-> "header",
      fields |-> <<<<"active">>, <<"normal">>, <<"2024-01-01">>>>,
      description |-> <<"Buy", " ", "milk">>],
     [kind |-> "indented", fields |-> <<>>, description |-> <<"2", " ", "litres">>],
     [kind |-> "marker", fields |-> <<>>, description |-> <<"done">>],
     [kind |-> "plain", fields |-> <<>>, description |-> <<"--">>],
     [kind |-> "plain", fields |-> <<>>, description |-> <<>>]}

\* the files of one to n such lines
RECURSIVE ModeFiles(_)
ModeFiles(n) ==
    IF n = 0 THEN {<<>>}
    ELSE {<<line>> \o file : line \in ModeLines, file \in ModeFiles(n - 1)}
         \cup (IF n > 1 THEN ModeFiles(n - 1) ELSE {})

\* the text of such a line in the file
LineText(line) ==
    CASE line.kind = "indented" ->
             <<" ", " ", " ", " ">> \o line.description \o <<NL>>
      [] line.kind = "marker" ->
             <<" ", " ", " ", " ", "[closing_remarks]", " ">> \o line.description
                 \o <<NL>>
      [] line.kind = "plain" -> line.description \o <<NL>>
      [] OTHER ->
             <<"(">> \o join(line.fields, "|") \o <<")", " ">> \o line.description
                 \o <<NL>>

InitDecode ==
    /\ StartUp(MaxTime)
    /\ OneAtATime
    /\ \E file \in DecodeFiles(MaxTasks) \cup ModeFiles(MaxBodyLines) :
           last = [op |-> "file", args |-> file, result |-> "ok", log |-> <<>>,
                   before |-> <<>>, evicted |-> {}]

\* the file is put where the tasks file is
PutTasksFile ==
    /\ last.op = "file"
    /\ Handled("put_tasks_file", last.args,
               [w |-> [World EXCEPT !.tasks[cfgFile.tasks_file] =
                          File(Concat([i \in DOMAIN last.args |-> LineText(last.args[i])]))],
                result |-> "ok"])

DecodeTasksFile ==
    /\ last.op = "put_tasks_file"
    /\ Handled("read_tasks_file", last.args,
               [w |-> World, result |-> parse_tasks(Ledger(World))])

NextDecode ==
    \/ PutTasksFile
    \/ DecodeTasksFile

DecodeSpec == InitDecode /\ [][NextDecode]_vars

---------------------------------------------------------------------------
(* NormalizeSpec: normalize_category_list on the values a request or a     *)
(* header can hold, and on its own result.                                 *)

\* the names of at most n atoms: words in both cases, dashes and blanks
RECURSIVE CategoryTexts(_)
CategoryTexts(n) ==
    IF n = 0 THEN {<<>>}
    ELSE CategoryTexts(n - 1)
         \cup {<<a>> \o t : a \in {"work", "Work", "-", " "},
                            t \in {u \in CategoryTexts(n - 1) : Len(u) = n - 1}}

\* None, a string with commas or delimiters in it, and the lists of one and
\* two names, an item that is no string among them
CategoryValues ==
    {PyNone, PyStr(<<"work", ",", " ", "Work", ",", "home">>),
     PyStr(<<"(", "work", "|", "home", ")">>),
     PyList(<<PyNone, PyStr(<<"home">>)>>)}
    \cup {PyList(<<PyStr(a)>>) : a \in CategoryTexts(MaxNameLen)}
    \cup {PyList(<<PyStr(a), PyStr(b)>>) :
              a \in CategoryTexts(MaxNameLen), b \in CategoryTexts(2)}

InitNormalize ==
    /\ StartUp(MaxTime)
    /\ OneAtATime
    /\ \E values \in CategoryValues :
           last = [op |-> "values", args |-> values, result |-> "ok", log |-> <<>>,
                   before |-> <<>>, evicted |-> {}]

NormalizeCategories ==
    /\ last.op = "values"
    /\ Handled("normalize_category_list", last.args,
               [w |-> World, result |-> normalize_category_list(last.args)])

\* the result is normalised once more
NormalizeAgain ==
    /\ last.op = "normalize_category_list"
    /\ Handled("normalize_again", last.result,
               [w |-> World, result |-> normalize_category_list(StrList(last.result))])

NextNormalize ==
    \/ NormalizeCategories
    \/ NormalizeAgain

NormalizeSpec == InitNormalize /\ [][NextNormalize]_vars

---------------------------------------------------------------------------
(* SnapshotIdSpec: snapshots written under a root that holds directories   *)
(* with the names of the current second already.  strftime gives the local *)
(* time, which comes again when the clock is set back, and several         *)
(* requests fall into one second.                                          *)

\* the directories that are there at the start, by their place in time
OlderIds ==
    <<<<"snapshot", "_", "0">>, <<"snapshot", "_", "0", "_", "1">>,
      <<"snapshot", "_", "0", "_", "2">>, <<"auto", "_", "0">>,
      <<"pre_restore", "_", "0">>>>

OlderSnapshot(i) ==
    [id |-> OlderIds[i], mtime |-> 0 - i, tasks_md |-> File(<<>>),
     runnning_md |-> NoFile, storage_config |-> File(default_storage_config),
     categories |-> NoFile, topics |-> File({}), open |-> NoFile,
     metadata |-> File([id |-> OlderIds[i], created_at |-> 0 - i,
                        mode |-> IF OlderIds[i][1] = "auto" THEN "auto" ELSE "manual",
                        trigger |-> "manual",
                        recovery_dir |-> default_storage_config.recovery_dir,
                        tasks_file |-> default_storage_config.tasks_file,
                        topics_dir |-> default_storage_config.topics_dir,
                        includes_storage_config |-> TRUE,
                        includes_categories |-> FALSE])]

InitSnapshotId ==
    /\ horizon = MaxIdTime
    /\ clock = 0
    /\ cfgFile = default_storage_config
    /\ taskFiles = [path \in TasksFiles |->
                       IF path = default_storage_config.tasks_file
                       THEN File(<<>>) ELSE NoFile]
    /\ topicsDirs = [dir \in TopicsDirs |-> File({})]
    /\ catFile = NoFile
    /\ \E older \in SUBSET DOMAIN OlderIds :
           snaps = [dir \in RecoveryDirs |-> {OlderSnapshot(i) : i \in older}]
    /\ OneAtATime
    /\ last = [op |-> "start", args |-> <<>>, result |-> "ok", log |-> <<>>,
               before |-> <<>>, evicted |-> {}]

NextSnapshotId ==
    \/ Tick
    \/ CreateSnapshot
    \/ CreateTaskApi
    \/ RestoreSnapshot

SnapshotIdSpec == InitSnapshotId /\ [][NextSnapshotId]_vars

---------------------------------------------------------------------------
(* RaceSpec: a request to the web application and a call of an MCP tool    *)
(* running beside each other (the MCP server runs in a thread of its own). *)
(* Each of the two handlers is cut in two where it has parsed the ledger.  *)

Requests == {"web", "mcp"}

\* two POST /api/snapshots requests
Creators == {"one", "two"}

Idle == [pc |-> "idle", held |-> <<>>, read_at |-> 0, wrote_at |-> 0, result |-> "none"]

\* the task the web request creates, and the status the MCP call sets
RaceTask == ApiTask(<<"Call", " ", "home">>, PyList(<<>>))
RaceArgs == [task_id |-> 0, status |-> <<"active">>]

\* a handler that knows about a later version of the ledger than it read
TasksRead_again(w, request) == parse_tasks(Ledger(w))

\* the list a handler holds since its tasks = parse_tasks()
TasksRead(w, request) == request.held

InitRace ==
    /\ StartUp(MaxTime)
    /\ inflight = [p \in Requests \cup Creators |-> Idle]
    /\ last = [op |-> "start", args |-> <<>>, result |-> "ok", log |-> <<>>,
               before |-> <<>>, evicted |-> {}]

\* create_task_api up to tasks = parse_tasks()
WebRead ==
    /\ inflight["web"].pc = "idle"
    /\ Ran("create_task_api", RaceTask, [w |-> World, result |-> "reading"])
    /\ inflight' = [inflight EXCEPT !["web"] =
                       [@ EXCEPT !.pc = "read", !.held = parse_tasks(Ledger(World)),
                                 !.read_at = clock']]

\* create_task_api from the gate to its return
WebWrite ==
    /\ inflight["web"].pc = "read"
    /\ \E fault \in GateFaults :
           LET r == create_task_api_write(World, TasksRead(World, inflight["web"]),
                                          RaceTask, fault)
           IN  /\ Ran("create_task_api", RaceTask, r)
               /\ inflight' = [inflight EXCEPT !["web"] =
                                  [@ EXCEPT !.pc = "done", !.wrote_at = clock',
                                            !.result = r.result]]

\* set_task_status up to the lookup of its target
McpRead ==
    /\ inflight["mcp"].pc = "idle"
    /\ LET tasks == parse_tasks(Ledger(World))
           found == HasTask(tasks, RaceArgs.task_id)
       IN  /\ Ran("set_task_status", RaceArgs,
                  [w |-> World, result |-> IF found THEN "reading" ELSE "not_found"])
           /\ inflight' = [inflight EXCEPT !["mcp"] =
                              IF found
                              THEN [@ EXCEPT !.pc = "read", !.held = tasks,
                                             !.read_at = clock']
                              ELSE [@ EXCEPT !.pc = "done", !.result = "not_found"]]

\* set_task_status from the gate to its return
McpWrite ==
    /\ inflight["mcp"].pc = "read"
    /\ \E fault \in GateFaults :
           LET r == set_task_status_write(World, TasksRead(World, inflight["mcp"]),
                                          RaceArgs.task_id, RaceArgs.status, fault)
           IN  /\ Ran("set_task_status", RaceArgs, r)
               /\ inflight' = [inflight EXCEPT !["mcp"] =
                                  [@ EXCEPT !.pc = "done", !.wrote_at = clock',
                                            !.result = r.result]]

\* create_snapshot up to snapshot_id = next_snapshot_id(...)
SnapshotProbe ==
    \E p \in Creators :
        /\ inflight[p].pc = "idle"
        /\ Ran("create_snapshot", NoArgs, [w |-> World, result |-> "probing"])
        /\ inflight' = [inflight EXCEPT ![p] =
                           [@ EXCEPT !.pc = "read", !.read_at = clock',
                                     !.held = next_snapshot_id(SnapshotDirs, "snapshot",
                                                               clock)]]

\* create_snapshot from write_snapshot(snapshot_id, ...) to its return
SnapshotWrite ==
    \E p \in Creators :
        /\ inflight[p].pc = "read"
        /\ LET written == write_snapshot(World, inflight[p].held, "manual", "manual",
                                         "none")
               result == IF written.ok THEN "ok" ELSE "storage_error"
           IN  /\ Ran("create_snapshot", NoArgs, [w |-> written.w, result |-> result])
               /\ inflight' = [inflight EXCEPT ![p] =
                                  [@ EXCEPT !.pc = "done", !.wrote_at = clock',
                                            !.result = result]]

NextRace ==
    \/ Tick
    \/ SnapshotProbe
    \/ SnapshotWrite
    \/ CreateTaskApi
    \/ WebRead
    \/ WebWrite
    \/ McpRead
    \/ McpWrite

RaceSpec == InitRace /\ [][NextRace]_vars

---------------------------------------------------------------------------
(* RequestSpec: requests whose values the handlers ought to look at (a due *)
(* date that is no date, an empty description, a status, a priority or a   *)
(* category that does not exist), under each setting of the gate.          *)

\* the configuration after a PUT /api/storage that set the flag and the interval
InitRequest ==
    /\ horizon = MaxRequestTime
    /\ clock = 0
    /\ \E enabled \in BOOLEAN, interval \in {0, 1} :
           cfgFile = [default_storage_config EXCEPT
                         !.auto_snapshot_enabled = enabled,
                         !.auto_snapshot_interval_seconds = interval]
    /\ taskFiles = [path \in TasksFiles |->
                       IF path = default_storage_config.tasks_file
                       THEN File(<<>>) ELSE NoFile]
    /\ topicsDirs = [dir \in TopicsDirs |-> File({})]
    /\ catFile = NoFile
    /\ snaps = [dir \in RecoveryDirs |-> {}]
    /\ OneAtATime
    /\ last = [op |-> "start", args |-> <<>>, result |-> "ok", log |-> <<>>,
               before |-> <<>>, evicted |-> {}]

\* MCP create_task: a well-formed call, and calls with one value off
CreateTaskAny ==
    /\ TaskCount < MaxTasks
    /\ \E args \in {[status |-> <<"created">>, priority |-> <<"normal">>,
                     due_date |-> <<"2024-02-01">>, category |-> None],
                    [status |-> <<"bogus">>, priority |-> <<"normal">>,
                     due_date |-> None, category |-> None],
                    [status |-> <<"created">>, priority |-> <<"high">>,
                     due_date |-> None, category |-> None],
                    [status |-> <<"created">>, priority |-> <<"normal">>,
                     due_date |-> <<"tomorrow">>, category |-> None],
                    [status |-> <<"created">>, priority |-> <<"normal">>,
                     due_date |-> None, category |-> <<"ghost">>]},
          fault \in GateFaults :
           Handled("create_task", args,
                   create_task(World, <<"Call", " ", "home">>, args.status,
                               args.priority, args.due_date, args.category, fault))

\* POST /api/tasks: a due date that is no date, no description, and a
\* description whose first line is empty
CreateTaskApiAny ==
    /\ TaskCount < MaxTasks
    /\ \E data \in {[ApiTask(<<"Buy", " ", "milk">>, PyList(<<>>))
                        EXCEPT !.due_date = <<"tomorrow">>],
                    ApiTask(<<>>, PyList(<<>>)),
                    ApiTask(<<NL, "milk">>, PyList(<<>>))},
          fault \in GateFaults :
           Handled("create_task_api", data, create_task_api(World, data, fault))

\* PUT /api/tasks/<task_id>: a due date that is no date, and no description
UpdateTaskAny ==
    \E task_id \in TaskIds,
       data \in {[due_date |-> <<"tomorrow">>], [description |-> <<>>]},
       fault \in GateFaults :
        Handled("update_task", [task_id |-> task_id, data |-> data],
                update_task(World, task_id, data, fault))

NextRequest ==
    \/ CreateTaskAny
    \/ CreateTaskApiAny
    \/ UpdateTaskAny
    \/ SetTaskStatus
    \/ CloseTask
    \/ DeleteTask
    \/ CreateNote
    \/ CreateTopic
    \/ RenameCategory
    \/ DeleteCategory

RequestSpec == InitRequest /\ [][NextRequest]_vars

\* the step just taken was a restore that returned successfully
RestoreDone == last.op = "restore_snapshot" /\ last.result = "ok"

\* the snapshot directories the step just taken added to the store
NewSnapshots == UNION {snaps'[root] \ snaps[root] : root \in RecoveryDirs}

\* the notes tree a snapshot directory holds: an empty one if it has none
CapturedNotes(d) == IF d.topics # NoFile THEN d.topics ELSE File({})

LiveWrites ==
    {"write_ledger", "delete_notes", "write_notes", "write_config",
     "write_categories", "write_note"}

\* C1: after restore_snapshot(id, mode) returns successfully, the live ledger
\* file has exactly the ledger content captured in the target snapshot id,
\* whatever the number of snapshots in the store and whichever is the target.
C1_LedgerIsTheTargets ==
    [][RestoreDone' =>
          \A d \in SnapshotDirs :
              d.id = last'.args.snapshot_id => Ledger(World)' = d.tasks_md]_vars

\* C2: a successful restore creates exactly one new snapshot, of mode
\* pre-restore, complete and holding the ledger and the notes as they were
\* before the restore, and it is written before the restore writes to or
\* deletes any live file.
C2_BackupBeforeRestore ==
    [][RestoreDone' =>
          /\ Cardinality(NewSnapshots) = 1
          /\ \A p \in NewSnapshots :
                 /\ p.metadata # NoFile
                 /\ Content(p.metadata).mode = "pre-restore"
                 /\ p.tasks_md = Ledger(World)
                 /\ p.topics = Notes(World)
          /\ \A i \in DOMAIN last'.log :
                 last'.log[i] \in LiveWrites =>
                     \E j \in 1 .. i - 1 : last'.log[j] = "snapshot_written"]_vars

\* a restore that changed the ledger, its backup holding the ledger as it was
C2_Witness ==
    /\ RestoreDone
    /\ last.before[1].ledger # Ledger(World)
    /\ \E p \in SnapshotDirs :
           /\ p.metadata # NoFile
           /\ Content(p.metadata).mode = "pre-restore"
           /\ p.mtime = clock - 1
           /\ p.tasks_md = last.before[1].ledger

\* C3: every restore is undoable.  After restore_snapshot(s, m) succeeds from
\* the live state L, the pre-restore snapshot it made is in the store the next
\* operation sees, and restoring it in mode m brings the live ledger (for full
\* also the notes, the category list and the configuration) back to L.
C3_RestoreIsUndoable ==
    \A s \in SnapshotDirs, m \in RestoreModes :
        LET done == restore_snapshot(World, s.id, m, "none")
            made == done.w.snaps[cfgFile.recovery_dir] \ SnapshotDirs
            \* the store as the next operation sees it
            store == done.w.snaps[load_storage_config(done.w).recovery_dir]
        IN  done.result = "ok" =>
                \A p \in made :
                    LET undone == restore_snapshot([done.w EXCEPT !.log = <<>>],
                                                   p.id, m, "none")
                    IN  /\ p \in store
                        /\ undone.result = "ok"
                        /\ Ledger(undone.w) = Ledger(World)
                        /\ m = "full" =>
                               /\ Notes(undone.w) = Notes(World)
                               /\ undone.w.cats = catFile
                               /\ undone.w.cfg = cfgFile

RestoreFailures == {"invalid_id", "invalid_mode", "not_found"}

\* C4: restore_snapshot checks the id against the pattern (validation error),
\* then the mode against {revert, full} (validation error), then that the
\* snapshot directory exists (not-found error); in each of the three failures
\* no snapshot is created and the live ledger, notes, category list and
\* storage configuration are unchanged.
C4_ValidationOrder ==
    [][last'.op = "restore_snapshot" =>
          LET bad_id == ~SNAPSHOT_NAME_PATTERN(last'.args.snapshot_id)
              bad_mode == last'.args.mode \notin {"revert", "full"}
              missing == \A d \in SnapshotDirs : d.id # last'.args.snapshot_id
          IN  /\ last'.result = "invalid_id" <=> bad_id
              /\ last'.result = "invalid_mode" <=> ~bad_id /\ bad_mode
              /\ last'.result = "not_found" <=> ~bad_id /\ ~bad_mode /\ missing
              /\ last'.result \in RestoreFailures =>
                     /\ last'.log = <<>>
                     /\ UNCHANGED <<snaps, taskFiles, topicsDirs, catFile, cfgFile>>]_vars

\* a request wrong in its mode and naming no snapshot is refused for its mode,
\* with snapshots in the store
C4_Witness ==
    /\ last.op = "restore_snapshot"
    /\ last.result = "invalid_mode"
    /\ \A d \in SnapshotDirs : d.id # last.args.snapshot_id
    /\ SnapshotDirs # {}

\* C5: after a successful restore in full mode the live notes tree is exactly
\* the notes tree captured in the target snapshot (an empty directory if it
\* has none), and the live category list and storage configuration equal the
\* snapshot's copies whenever the snapshot contains them.
C5_FullRestoresEverything ==
    [][RestoreDone' /\ last'.args.mode = "full" =>
          \A d \in SnapshotDirs :
              d.id = last'.args.snapshot_id =>
                  /\ Notes(World)' = CapturedNotes(d)
                  /\ d.categories # NoFile => catFile' = d.categories
                  /\ d.storage_config # NoFile =>
                         cfgFile' = Content(d.storage_config)]_vars

\* C6: a restore in revert mode changes only the live ledger among the live
\* files: the notes tree, the category list file and the storage configuration
\* file are after the restore what they were before it.
C6_RevertChangesLedgerOnly ==
    [][RestoreDone' /\ last'.args.mode = "revert" =>
          /\ UNCHANGED <<topicsDirs, catFile, cfgFile>>
          /\ \A path \in TasksFiles \ {cfgFile.tasks_file} :
                 taskFiles'[path] = taskFiles[path]]_vars

\* a revert that changed the ledger, from a snapshot whose notes are not the
\* live notes
C6_Witness ==
    /\ RestoreDone
    /\ last.args.mode = "revert"
    /\ last.before[1].ledger # Ledger(World)
    /\ \E d \in SnapshotDirs :
           d.id = last.args.snapshot_id /\ CapturedNotes(d) # Notes(World)

---------------------------------------------------------------------------
(* The codec (CodecSpec)                                                   *)

\* C7: round-trip law of the task codec.  For every list T of tasks that
\* respects the data-model invariants, writing T with save_tasks and reading
\* the file back with parse_tasks yields as many tasks in the same order, with
\* ids 0..n-1 and equal status, priority, date, due_date, description,
\* categories and closing_remarks.
C7_RoundTrip == last.op = "parse_tasks" => last.result = last.args

---------------------------------------------------------------------------
(* The automatic snapshot of the mutating handlers (GateSpec)              *)

\* the handlers the gate is written into
GatedOps ==
    {"create_task", "set_task_status", "close_task", "create_note",
     "create_topic", "create_task_api", "update_task", "delete_task"}

Occurs(log, event) == \E i \in DOMAIN log : log[i] = event

\* C8: every operation that persists a change to the ledger or creates a note
\* (task create, update, set-status, close, delete, note create, and any
\* other handler that rewrites the ledger) evaluates the auto-snapshot gate
\* before its change is written: no ledger write happens without the gate
\* evaluated earlier in the same operation.  (A restore takes its own backup
\* and is not meant.)
C8_GateBeforeEveryWrite ==
    last.op # "restore_snapshot" =>
        \A i \in DOMAIN last.log :
            last.log[i] \in {"write_ledger", "write_note"} =>
                \E j \in 1 .. i - 1 : last.log[j] = "gate"

\* C9: if the automatic snapshot a mutating operation attempts fails with a
\* storage error, the operation reports an error and the live ledger and notes
\* are as they were before it; the mutation is not persisted.
C9_FailClosed ==
    [][last'.op \in GatedOps /\ Occurs(last'.log, "snapshot_failed") =>
          /\ last'.result = "snapshot_failed"
          /\ ~Occurs(last'.log, "write_ledger")
          /\ ~Occurs(last'.log, "write_note")
          /\ UNCHANGED <<taskFiles, topicsDirs>>]_vars

\* an update of a task that is there, abandoned for its snapshot
C9_Witness ==
    /\ last.op = "update_task"
    /\ last.result = "snapshot_failed"
    /\ last.log = <<"write_categories", "gate", "snapshot_failed">>
    /\ TaskCount > 0

\* the times of the auto-mode snapshots of a store
AutoModeTimes(dirs) ==
    {Content(d.metadata).created_at :
        d \in {e \in dirs : e.metadata # NoFile /\ Content(e.metadata).mode = "auto"}}

\* a store that holds one auto-mode snapshot, made at time 0
OneAutoAtZero == {[metadata |-> File([mode |-> "auto", created_at |-> 0])]}

\* C10: with auto snapshots enabled and interval I > 0, a mutating operation
\* at time t makes a new auto snapshot exactly when no auto-mode snapshot is
\* in the store or the newest one's created_at is at least I seconds before
\* t, and none otherwise; snapshots of mode manual or pre-restore play no
\* part.  With I = 60, a trigger 10 s after an auto snapshot makes none and a
\* trigger 70 s after it makes one.
C10_Debounce ==
    [][/\ LET config == [default_storage_config EXCEPT
                            !.auto_snapshot_interval_seconds = 60]
          IN  /\ ~should_create_auto_snapshot(config, OneAutoAtZero,
                                              10 * TicksPerSecond)
              /\ should_create_auto_snapshot(config, OneAutoAtZero,
                                             70 * TicksPerSecond)
       /\ (/\ last'.op \in GatedOps
           /\ Occurs(last'.log, "gate")
           /\ cfgFile.auto_snapshot_enabled
           /\ cfgFile.auto_snapshot_interval_seconds > 0)
          => LET times == AutoModeTimes(SnapshotDirs)
                 due == \A t \in times :
                            clock - t >= cfgFile.auto_snapshot_interval_seconds
                                             * TicksPerSecond
                 made == {d \in NewSnapshots :
                              d.metadata # NoFile /\ Content(d.metadata).mode = "auto"}
             IN  /\ due <=> \/ Occurs(last'.log, "snapshot_written")
                            \/ Occurs(last'.log, "snapshot_failed")
                 /\ Occurs(last'.log, "snapshot_written") => Cardinality(made) = 1
                 /\ ~Occurs(last'.log, "snapshot_written") => NewSnapshots = {}]_vars

\* a mutation less than the interval after an auto snapshot, which was itself
\* made less than the interval after a manual one: the gate is evaluated and
\* no snapshot is taken
C10_Witness ==
    /\ last.op \in GatedOps
    /\ last.result = "ok"
    /\ Occurs(last.log, "gate")
    /\ ~Occurs(last.log, "snapshot_written")
    /\ cfgFile.auto_snapshot_enabled
    /\ \E a, m \in SnapshotDirs :
           /\ Content(a.metadata).mode = "auto"
           /\ Content(m.metadata).mode = "manual"
           /\ m.mtime < a.mtime
           /\ a.mtime - m.mtime
                  < cfgFile.auto_snapshot_interval_seconds * TicksPerSecond

---------------------------------------------------------------------------
(* Properties of the snapshot store (Spec)                                 *)

\* the step just taken wrote a snapshot to its end
SnapshotWritten == Occurs(last.log, "snapshot_written")

Min(a, b) == IF a <= b THEN a ELSE b

\* C11: after every successful snapshot creation (manual, auto or
\* pre-restore) the number of snapshot directories is at most
\* retention_count, the survivors are the retention_count most recently
\* modified directories, and the snapshot just created is among them.
C11_RetentionBound ==
    [][SnapshotWritten' =>
          LET retain == cfgFile.snapshot_retention_count
              all == SnapshotDirs \cup SnapshotDirs'
              kept == SnapshotDirs'
          IN  /\ Cardinality(kept) <= retain
              /\ Cardinality(kept) = Min(retain, Cardinality(all))
              /\ \A d \in all \ kept, e \in kept : d.mtime < e.mtime
              /\ \E n \in kept \ SnapshotDirs :
                     n.metadata # NoFile /\ n.mtime = clock]_vars

\* a snapshot written into a store that held more directories than the count
\* (one of them left by a creation that failed): two are evicted at once
C11_Witness ==
    /\ SnapshotWritten
    /\ Cardinality(last.evicted) = 2
    /\ Cardinality(SnapshotDirs) = cfgFile.snapshot_retention_count

\* the mode a snapshot directory's metadata records
ModeOf(d) == IF d.metadata = NoFile THEN "none" ELSE Content(d.metadata).mode

\* C12: retention eviction selects its victims by age only, never by mode:
\* every directory a step evicts is older than every directory it keeps,
\* whether it is manual, auto or pre-restore, and no directory is kept for its
\* mode when the store exceeds the count.
C12_EvictionByAgeOnly ==
    /\ \A d \in last.evicted : \A e \in SnapshotDirs : d.mtime < e.mtime
    /\ SnapshotWritten =>
           \A mode \in {"manual", "auto", "pre-restore"} :
               \A d \in last.evicted \cup SnapshotDirs :
                   (/\ ModeOf(d) = mode
                    /\ Cardinality({e \in SnapshotDirs : e.mtime > d.mtime})
                           >= Cardinality(SnapshotDirs))
                       => d \in last.evicted

\* a pre-restore snapshot evicted while an automatic snapshot made after it
\* is kept
C12_Witness ==
    \E d \in last.evicted :
        /\ ModeOf(d) = "pre-restore"
        /\ \E e \in SnapshotDirs : ModeOf(e) = "auto" /\ e.mtime > d.mtime

\* C13: snapshots are immutable.  Once write_snapshot has returned for a
\* snapshot, its captured ledger, notes tree, category list, storage
\* configuration and metadata never change under any later operation; a
\* snapshot only disappears as a whole, and only through retention eviction
\* (in a step that wrote a snapshot into a full store, being older than
\* every directory kept).
C13_SnapshotsImmutable ==
    [][\A d \in SnapshotDirs :
           d.metadata # NoFile =>
               \/ d \in SnapshotDirs'
               \/ /\ \A e \in SnapshotDirs' : e.id # d.id
                  /\ SnapshotWritten'
                  /\ Cardinality(SnapshotDirs') = cfgFile.snapshot_retention_count
                  /\ \A e \in SnapshotDirs' : e.mtime > d.mtime]_vars

\* a full restore that changed the live ledger and whose backup evicted
\* another snapshot, its target still in the store with the ledger it gave
C13_Witness ==
    /\ RestoreDone
    /\ last.args.mode = "full"
    /\ last.before[1].ledger # Ledger(World)
    /\ last.evicted # {}
    /\ \E d \in SnapshotDirs :
           d.id = last.args.snapshot_id /\ d.tasks_md = Ledger(World)

---------------------------------------------------------------------------
(* Properties of the task file (CodecSpec, GateSpec)                       *)

\* the lines of a tasks file that are not continuation lines
HeaderLines(text) ==
    SelectSeq(readlines(text), LAMBDA line : ~startswith(line, INDENT))

\* status|priority|date of a task, after the opening parenthesis
ThreeFields(task) ==
    <<"(">> \o task.status \o <<"|">> \o task.priority \o <<"|">> \o task.date

\* C14: a task with no due date and only the default category is written by
\* save_tasks with the 3-field header (status|priority|date) before its
\* description; only tasks with a due date or a non-default category get the
\* extended header.
C14_MinimalHeader ==
    last.op = "save_tasks" =>
        LET lines == HeaderLines(Content(Ledger(World)))
        IN  /\ Len(lines) = Len(last.args)
            /\ \A i \in DOMAIN last.args :
                   LET task == last.args[i]
                       first_line == split(task.description, NL)[1]
                   IN  IF Falsy(task.due_date) /\ task.categories = <<DEFAULT_CATEGORY>>
                       THEN lines[i] = ThreeFields(task) \o <<")", " ">> \o first_line
                       ELSE startswith(lines[i], ThreeFields(task) \o <<"|">>)

\* the positions of the header lines among the lines of a tasks file
HeaderPositions(lines) == {k \in DOMAIN lines : ~startswith(lines[k], INDENT)}

\* C15: close_task(id, remarks) with non-blank remarks on an existing task
\* sets its status to closed, keeps its priority, date, due date, description
\* and categories and stores the trimmed remarks, which are written as a
\* "    [closing_remarks] <text>" line after the task's header and description
\* lines and before the next task's header; a later parse returns the same
\* task with status closed and those remarks.
C15_CloseTask ==
    [][last'.op = "close_task" /\ last'.result = "ok" =>
          LET before == parse_tasks(Ledger(World))
              after == parse_tasks(Ledger(World)')
              lines == readlines(Content(Ledger(World)'))
              remarks == strip(last'.args.closing_remarks)
          IN  /\ Len(after) = Len(before)
              /\ \A i \in DOMAIN before :
                     before[i].id = last'.args.task_id =>
                         /\ after[i] = [before[i] EXCEPT
                                           !.status = <<"closed">>,
                                           !.closing_remarks = remarks]
                         /\ \E h \in HeaderPositions(lines) :
                                LET k == h + Len(split(before[i].description, NL))
                                IN  /\ Cardinality({j \in HeaderPositions(lines) : j < h})
                                           = i - 1
                                    /\ k \in DOMAIN lines
                                    /\ lines[k] = CLOSING_PREFIX \o split(remarks, NL)[1]
                                    /\ \A j \in h + 1 .. k : j \notin HeaderPositions(lines)]_vars

---------------------------------------------------------------------------
(* Properties of decoding (DecodeSpec)                                     *)

\* the tasks of a parse that the i-th line of the file started
StartedBy(tasks, i) == {k \in DOMAIN tasks : tasks[k].id = i - 1}

\* the categories the fields from position k onward decode to
CategoriesFrom(fields, k) ==
    IF Len(fields) < k THEN <<DEFAULT_CATEGORY>>
    ELSE normalize_category_list(PyStr(join(SubSeq(fields, k, Len(fields)), "|")))

\* C16: shape-based decoding of header field 4.  For a header with at least
\* four fields, an empty or blank field 4 gives due_date None with the
\* categories taken from field 5 onward; a field 4 of the form YYYY-MM-DD
\* gives that due date with the categories from field 5 onward; any other
\* non-empty field 4 gives due_date None with the categories taken from
\* field 4 onward.
C16_ShapeOfFieldFour ==
    last.op = "read_tasks_file" =>
        \A i \in DOMAIN last.args :
            LET line == last.args[i]
                fields == line.fields
                field4 == strip(fields[4])
                started == StartedBy(last.result, i)
            IN  (line.kind = "header" /\ Len(fields) >= 4) =>
                    /\ started # {}
                    /\ \A k \in started :
                           LET task == last.result[k]
                           IN  IF field4 = <<>>
                               THEN /\ task.due_date = None
                                    /\ task.categories = CategoriesFrom(fields, 5)
                               ELSE IF Len(field4) = 1 /\ field4[1] \in DateAtoms
                               THEN /\ task.due_date = field4
                                    /\ task.categories = CategoriesFrom(fields, 5)
                               ELSE /\ task.due_date = None
                                    /\ task.categories = CategoriesFrom(fields, 4)

\* the three headers of the specification, each decoded as it says:
\* (active|normal|2024-01-01||work), (active|normal|2024-01-01|work) and
\* (active|normal|2024-01-01|2024-02-01|work)
C16_Witness ==
    /\ last.op = "read_tasks_file"
    /\ \E i \in DOMAIN last.args :
           /\ last.args[i].fields
                  = <<<<"active">>, <<"normal">>, <<"2024-01-01">>, <<"2024-02-01">>,
                      <<"work">>>>
           /\ \E k \in StartedBy(last.result, i) :
                  /\ last.result[k].due_date = <<"2024-02-01">>
                  /\ last.result[k].categories = <<<<"work">>>>
    /\ \E i \in DOMAIN last.args :
           /\ last.args[i].fields
                  \in {<<<<"active">>, <<"normal">>, <<"2024-01-01">>, <<>>, <<"work">>>>,
                       <<<<"active">>, <<"normal">>, <<"2024-01-01">>, <<"work">>>>}
           /\ \E k \in StartedBy(last.result, i) :
                  /\ last.result[k].due_date = None
                  /\ last.result[k].categories = <<<<"work">>>>

\* C17: legacy decode.  A line "(status) description" with a single bare
\* status and no pipes starts a new task with that status, priority normal,
\* date equal to today's date, due_date None, categories [default] and the
\* given description (without the blanks around it).
C17_LegacyDecode ==
    last.op = "read_tasks_file" =>
        \A i \in DOMAIN last.args :
            LET line == last.args[i]
                started == StartedBy(last.result, i)
            IN  line.kind = "legacy" =>
                    /\ started # {}
                    /\ \A k \in started :
                           LET task == last.result[k]
                           IN  /\ task.status = line.fields[1]
                               /\ task.priority = <<"normal">>
                               /\ task.date = Today
                               /\ task.due_date = None
                               /\ task.categories = <<DEFAULT_CATEGORY>>
                               /\ task.description = strip(line.description)

\* the file whose only line is "(created) Buy milk", decoded to one task
C17_Witness ==
    /\ last.op = "read_tasks_file"
    /\ last.args = <<[kind |-> "legacy", fields |-> <<<<"created">>>>,
                      description |-> <<"Buy", " ", "milk">>]>>
    /\ Len(last.result) = 1
    /\ last.result[1].description = <<"Buy", " ", "milk">>
    /\ last.result[1].id = 0

---------------------------------------------------------------------------
(* Properties of requests that run beside each other (RaceSpec)            *)

\* the change of a request shows in the ledger
ChangeVisible(p) ==
    LET tasks == parse_tasks(Ledger(World))
    IN  IF p = "web"
        THEN \E i \in DOMAIN tasks : tasks[i].description = RaceTask.description
        ELSE \E i \in DOMAIN tasks :
                 tasks[i].id = RaceArgs.task_id /\ tasks[i].status = RaceArgs.status

BothSucceeded == \A p \in Requests : inflight[p].pc = "done" /\ inflight[p].result = "ok"

\* C18: lost update.  Two task-mutating requests that run beside each other,
\* each reading the whole file, changing its list and writing the whole file
\* with no synchronisation or version check: when both have returned success,
\* the ledger holds the later writer's change, and the other request's change
\* exactly if the later writer read the ledger after it was written; there
\* is an interleaving in which it is lost.
C18_LostUpdate ==
    BothSucceeded =>
        \A earlier, later \in Requests :
            inflight[earlier].wrote_at < inflight[later].wrote_at =>
                /\ ChangeVisible(later)
                /\ ChangeVisible(earlier)
                       <=> inflight[later].read_at > inflight[earlier].wrote_at

\* both requests returned success and the status the MCP call set, written
\* first, is not in the ledger
C18_Witness ==
    /\ BothSucceeded
    /\ inflight["mcp"].wrote_at < inflight["web"].wrote_at
    /\ ChangeVisible("web")
    /\ ~ChangeVisible("mcp")

\* two snapshot creations that have returned, having selected the same id
SameIdSelected(p, q) ==
    /\ p # q
    /\ inflight[p].pc = "done" /\ inflight[q].pc = "done"
    /\ inflight[p].held = inflight[q].held

\* C19: snapshot id race.  Two snapshot creations that run beside each other
\* never both write a directory of the same id: when both took the same id
\* from next_snapshot_id, the one that makes the directory first returns the
\* snapshot, the other fails with a storage error, and the directory of that
\* id, as long as it is kept, is the one the first wrote.
C19_OneWriterPerDirectory ==
    \A p, q \in Creators :
        SameIdSelected(p, q) /\ inflight[p].wrote_at < inflight[q].wrote_at =>
            /\ inflight[p].result = "ok"
            /\ inflight[q].result = "storage_error"
            /\ \A d \in SnapshotDirs :
                   d.id = inflight[p].held =>
                       /\ d.metadata # NoFile
                       /\ Content(d.metadata).created_at = inflight[p].wrote_at - 1

\* both creations selected the same id within one second, one has written
\* the directory and the other has failed on it
C19_Witness ==
    \E p, q \in Creators :
        /\ SameIdSelected(p, q)
        /\ (inflight[p].read_at - 1) \div TicksPerSecond
               = (inflight[q].read_at - 1) \div TicksPerSecond
        /\ inflight[p].result = "ok"
        /\ inflight[q].result = "storage_error"
        /\ \E d \in SnapshotDirs : d.id = inflight[p].held

---------------------------------------------------------------------------
(* A restore that fails while it applies the snapshot *)

\* the step just taken was a restore stopped by an OSError in its apply phase
ApplyFailed ==
    /\ last.op = "restore_snapshot"
    /\ last.result = "storage_error"
    /\ Occurs(last.log, "apply_failed")

\* C20: no rollback, the safety backup survives.  When a filesystem failure
\* stops the apply phase of a restore, the restore reports a storage error,
\* the live files stay as the statements before the failure left them (the
\* ledger already replaced, the notes tree already deleted), and the
\* pre-restore snapshot this restore wrote is in the store, complete, holding
\* the ledger and the notes as they were before the restore.
C20_NoRollbackBackupSurvives ==
    [][ApplyFailed' =>
          /\ Cardinality(NewSnapshots) = 1
          /\ \A p \in NewSnapshots :
                 /\ p \in SnapshotDirs'
                 /\ p.metadata # NoFile
                 /\ Content(p.metadata).mode = "pre-restore"
                 /\ p.tasks_md = Ledger(World)
                 /\ p.topics = Notes(World)
          /\ cfgFile' = cfgFile /\ catFile' = catFile
          /\ \A d \in SnapshotDirs :
                 d.id = last'.args.snapshot_id =>
                     Ledger(World)' = IF Occurs(last'.log, "write_ledger")
                                      THEN d.tasks_md ELSE Ledger(World)
          /\ Notes(World)' = IF Occurs(last'.log, "delete_notes")
                             THEN File({}) ELSE Notes(World)]_vars

\* a full restore that failed after it had replaced the ledger and deleted
\* the notes: the live files are not what they were, and the pre-restore
\* snapshot holds what they were
C20_Witness ==
    /\ ApplyFailed
    /\ last.args.mode = "full"
    /\ Occurs(last.log, "write_ledger")
    /\ Occurs(last.log, "delete_notes")
    /\ \E p \in SnapshotDirs :
           /\ p.metadata # NoFile
           /\ Content(p.metadata).mode = "pre-restore"
           /\ p.mtime = clock - 1
           /\ p.tasks_md # Ledger(World)
           /\ p.topics # Notes(World)

---------------------------------------------------------------------------
(* Properties of the requests of RequestSpec *)

\* the due date a task-create or task-update request carries, None if none
DueDateOf(l) ==
    IF l.op = "update_task"
    THEN IF "due_date" \in DOMAIN l.args.data THEN l.args.data["due_date"] ELSE None
    ELSE IF l.op \in {"create_task", "create_task_api"} THEN l.args.due_date
    ELSE None

\* C21: every task-create or task-update request, through the MCP tool or
\* the HTTP API, that carries a due date which is not of the form YYYY-MM-DD
\* is rejected with a validation error and leaves the ledger unchanged.
C21_BadDueDateRejected ==
    [][(DueDateOf(last') # None /\ ~is_date(DueDateOf(last'))) =>
          /\ last'.result = "validation"
          /\ Ledger(World)' = Ledger(World)]_vars

\* the requests that name a task by its id
IdRequests == {"update_task", "set_task_status", "close_task", "delete_task"}

\* C22: a task update, set-status, close or delete that names a task id not
\* in the parsed ledger fails with the not-found signal, creates no snapshot
\* and leaves the ledger unchanged.
C22_UnknownTaskId ==
    [][(/\ last'.op \in IdRequests
        /\ ~HasTask(parse_tasks(Ledger(World)), last'.args.task_id)) =>
          /\ last'.result = "not_found"
          /\ snaps' = snaps
          /\ taskFiles' = taskFiles]_vars

\* a request for task 1 on a ledger that holds task 0 only, not found, while
\* the gate is set to take a snapshot on every mutation
C22_Witness ==
    /\ last.op \in IdRequests
    /\ last.result = "not_found"
    /\ last.args.task_id = 1
    /\ TaskCount = 1
    /\ cfgFile.auto_snapshot_enabled
    /\ cfgFile.auto_snapshot_interval_seconds = 0

---------------------------------------------------------------------------
(* The listing of the snapshots *)

\* C23: list_snapshots returns one record per snapshot directory under the
\* snapshot root: the metadata on disk where the directory has it, else a
\* record with the directory name as id, the directory's modification time as
\* created_at and mode "unknown"; the records are in descending order of
\* created_at.
C23_ListSnapshots ==
    last.op = "list_snapshots" =>
        LET records == last.result
        IN  /\ Len(records) = Cardinality(SnapshotDirs)
            /\ \A d \in SnapshotDirs :
                   \E i \in DOMAIN records :
                       /\ records[i].id = d.id
                       /\ IF d.metadata # NoFile
                          THEN /\ records[i].mode = Content(d.metadata).mode
                               /\ records[i].trigger = Content(d.metadata).trigger
                               /\ records[i].created_at
                                      = isoformat(Content(d.metadata).created_at)
                          ELSE /\ records[i].mode = "unknown"
                               /\ records[i].created_at = isoformat(d.mtime)
            /\ \A i, j \in DOMAIN records :
                   i < j => ~StrLess(records[i].created_at, records[j].created_at)

\* a listing of a directory without metadata and, after it, two older ones
\* that have it, one written on the second and one within it
C23_Witness ==
    /\ last.op = "list_snapshots"
    /\ Len(last.result) = 3
    /\ last.result[1].mode = "unknown"
    /\ last.result[2].mode # "unknown"
    /\ last.result[3].mode # "unknown"
    /\ \E i, j \in 1 .. 3 :
           Len(last.result[i].created_at) # Len(last.result[j].created_at)

---------------------------------------------------------------------------
(* The category list *)

\* the name is the default category's, in some letter case
NamesDefault(name) == lower(strip(name)) = DEFAULT_CATEGORY

\* the step just taken was a rename or a delete of the default category, or a
\* rename to it
DefaultCategoryRequest ==
    \/ /\ last.op = "rename_category"
       /\ NamesDefault(last.args.category_name) \/ NamesDefault(last.args.name)
    \/ /\ last.op = "delete_category"
       /\ NamesDefault(last.args.category_name)

\* C24: in every reachable state the stored category list has the default
\* category as its first entry; a rename or delete request that names the
\* default category in any letter case, and a rename whose new name is the
\* default category, is rejected and leaves the category list and the ledger
\* unchanged.
C24_DefaultCategory ==
    /\ [](catFile # NoFile =>
              /\ Content(catFile) # <<>>
              /\ Content(catFile)[1] = DEFAULT_CATEGORY)
    /\ [][DefaultCategoryRequest' =>
              /\ last'.result = "validation"
              /\ catFile' = catFile
              /\ taskFiles' = taskFiles]_vars

\* a rejected request on the default category while the stored list holds
\* another category and the ledger a task
C24_Witness ==
    /\ DefaultCategoryRequest
    /\ last.result = "validation"
    /\ catFile # NoFile
    /\ Len(Content(catFile)) >= 2
    /\ TaskCount >= 1

---------------------------------------------------------------------------
(* The automatic snapshot of a mutation *)

\* C25: an automatic snapshot captures the state before the mutation that
\* triggered it: the ledger and the notes it holds are the live ledger and
\* notes as they were immediately before the operation, without the
\* operation's own change.
C25_SnapshotBeforeMutation ==
    [][\A p \in NewSnapshots :
           ModeOf(p) = "auto" =>
               /\ p.tasks_md = Ledger(World)
               /\ p.topics = Notes(World)]_vars

\* a request changed the ledger and the automatic snapshot it took holds the
\* ledger without the change
C25_Witness ==
    /\ last.op \in GatedOps
    /\ last.result = "ok"
    /\ Occurs(last.log, "write_ledger")
    /\ \E p \in SnapshotDirs :
           /\ ModeOf(p) = "auto"
           /\ p.mtime = clock - 1
           /\ p.tasks_md # Ledger(World)
           /\ Content(p.tasks_md) # <<>>

---------------------------------------------------------------------------
(* The number of tasks *)

TaskRequests ==
    {"create_task", "create_task_api", "update_task", "set_task_status",
     "close_task", "delete_task"}

\* C26: no operation removes a task from the ledger.  Across task create,
\* update, set-status, close and delete requests the number of tasks
\* parse_tasks returns never decreases, and it grows by exactly one on each
\* successful create, for every accepted input, an empty description or one
\* whose first line is empty included.
C26_TasksAreNeverLost ==
    [][last'.op \in TaskRequests =>
          LET before == Len(parse_tasks(Ledger(World)))
              after == Len(parse_tasks(Ledger(World)'))
          IN  /\ after >= before
              /\ (last'.op \in {"create_task", "create_task_api"} /\ last'.result = "ok")
                     => after = before + 1]_vars

---------------------------------------------------------------------------
(* Requests that are rejected *)

\* C27: a mutating operation that is rejected with a validation, conflict or
\* not-found error (unknown task id, invalid status, priority or due date, a
\* category that does not exist, a note name that exists, a note path outside
\* the notes folder) leaves the snapshot store unchanged as well as the ledger
\* and the notes: no automatic snapshot is taken for a rejected request.
C27_RejectedLeavesNoSnapshot ==
    [][(/\ last'.op \in GatedOps
        /\ last'.result \in {"validation", "conflict", "not_found"}) =>
          /\ snaps' = snaps
          /\ taskFiles' = taskFiles
          /\ topicsDirs' = topicsDirs]_vars

---------------------------------------------------------------------------
(* A full restore of a snapshot taken under another configuration *)

\* C28: after a successful full-mode restore, the next parse_tasks(), which
\* reads the storage configuration again, returns the tasks captured in the
\* target snapshot, also when the snapshot's storage_config.json names another
\* tasks file than the configuration that was live when the restore started.
\* (Stated for a target that the restore's own backup did not evict; the other
\* case is C1's.)
C28_FullRestoreReadsBack ==
    [][(RestoreDone' /\ last'.args.mode = "full") =>
          \A d \in SnapshotDirs :
              (d.id = last'.args.snapshot_id /\ d \in snaps'[cfgFile.recovery_dir]) =>
                  parse_tasks(Ledger(World)') = parse_tasks(d.tasks_md)]_vars

---------------------------------------------------------------------------
(* The inputs of the gate *)

\* the step just taken was a mutating operation that went through the gate
ReachedGate == last.op \in GatedOps /\ Occurs(last.log, "gate")

\* C29: when auto_snapshot_enabled is false no mutating operation creates an
\* automatic snapshot, whatever the interval, 0 included; when it is true and
\* the interval is 0, every mutating operation that reaches the gate creates
\* a new automatic snapshot (or fails on writing it), however recent the
\* previous one is.
C29_GateInputs ==
    [][/\ ~cfgFile.auto_snapshot_enabled =>
              \A p \in NewSnapshots : ModeOf(p) # "auto"
       /\ (/\ cfgFile.auto_snapshot_enabled
           /\ cfgFile.auto_snapshot_interval_seconds = 0
           /\ ReachedGate') =>
              \/ last'.result = "snapshot_failed" /\ NewSnapshots = {}
              \/ /\ Cardinality(NewSnapshots) = 1
                 /\ \A p \in NewSnapshots : ModeOf(p) = "auto"]_vars

\* with interval 0, a mutation took an automatic snapshot one tick after the
\* previous automatic snapshot was taken
C29_Witness ==
    /\ cfgFile.auto_snapshot_enabled
    /\ cfgFile.auto_snapshot_interval_seconds = 0
    /\ ReachedGate
    /\ last.result = "ok"
    /\ \E p, q \in SnapshotDirs :
           /\ ModeOf(p) = "auto" /\ ModeOf(q) = "auto"
           /\ p.mtime = clock - 1
           /\ q.mtime = clock - 2

---------------------------------------------------------------------------
(* Properties of the decoder's modes (DecodeSpec)                          *)

\* The mode machine as the specification tells it, on the lines of a file:
\* body is <<>> or the description and closing remarks of the task in
\* progress, closing says whether the closing remarks are being collected.
ModeStep(m, line) ==
    IF line.kind = "header"
    THEN [done |-> m.done \o m.body,
          body |-> <<[description |-> line.description, closing_remarks |-> None]>>,
          closing |-> FALSE]
    ELSE IF line.kind \in {"indented", "marker"} /\ m.body # <<>>
    THEN IF line.kind = "marker"
         THEN [m EXCEPT !.body[1].closing_remarks = line.description,
                        !.closing = TRUE]
         ELSE IF m.closing
         THEN [m EXCEPT !.body[1].closing_remarks = @ \o <<NL>> \o line.description]
         ELSE [m EXCEPT !.body[1].description = @ \o <<NL>> \o line.description]
    ELSE [m EXCEPT !.closing = FALSE]

RECURSIVE ModeRun(_, _)
ModeRun(m, lines) ==
    IF lines = <<>> THEN m.done \o m.body
    ELSE ModeRun(ModeStep(m, Head(lines)), Tail(lines))

\* the description and the closing remarks of every decoded task
Bodies(tasks) ==
    [k \in DOMAIN tasks |-> [description |-> tasks[k].description,
                             closing_remarks |-> tasks[k].closing_remarks]]

\* the files made of headers and body lines only
IsModeFile(file) == \A i \in DOMAIN file : file[i].kind # "legacy"

\* C30: decoder mode machine.  Within a task, a line starting with four
\* spaces is appended (without the four spaces, after a newline) to the
\* description, unless it starts with "    [closing_remarks] ", which sets
\* closing_remarks to the rest of the line and enters closing-remarks mode;
\* in that mode every further indented line is appended to closing_remarks;
\* a header line or any line that is not indented leaves the mode; blank
\* lines before the first task are ignored; the end of the input flushes
\* the task in progress.
C30_DecoderModes ==
    (last.op = "read_tasks_file" /\ IsModeFile(last.args)) =>
        Bodies(last.result)
            = ModeRun([done |-> <<>>, body |-> <<>>, closing |-> FALSE], last.args)

\* an empty line, a header, the closing remarks and one more line of them,
\* a line that is not indented, and an indented line that goes to the
\* description again: one task, flushed at the end of the file
C30_Witness ==
    /\ last.op = "read_tasks_file"
    /\ Len(last.args) = 6
    /\ [i \in 1 .. 6 |-> last.args[i].kind]
           = <<"plain", "header", "marker", "indented", "plain", "indented">>
    /\ last.args[1].description = <<>>
    /\ Len(last.result) = 1
    /\ last.result[1].description
           = <<"Buy", " ", "milk", NL, "2", " ", "litres">>
    /\ last.result[1].closing_remarks = <<"done", NL, "2", " ", "litres">>

---------------------------------------------------------------------------
(* Properties of the categories (DecodeSpec, CodecSpec, RequestSpec)       *)

\* the fields of the header that save_tasks wrote for the first task
FirstHeader(w) ==
    split(TASK_PATTERN(readlines(Content(Ledger(w)))[1]).header, "|")

\* C31: several categories in the header are separated by pipes.  save_tasks
\* writes the categories of a task after the due-date field joined by "|",
\* and parse_tasks decodes a header whose category fields are a|b, as in
\* (active|normal|2024-01-01||a|b), to the two categories [a, b].
C31_PipeSeparatedCategories ==
    /\ (last.op = "save_tasks" /\ last.args # <<>>) =>
           LET parts == FirstHeader(World)
           IN  SubSeq(parts, 5, Len(parts)) = last.args[1].categories
    /\ last.op = "read_tasks_file" =>
           \A i \in DOMAIN last.args :
               LET fields == last.args[i].fields
               IN  (last.args[i].kind = "header" /\ Len(fields) = 6
                        /\ fields[4] = <<>>) =>
                       \A k \in StartedBy(last.result, i) :
                           last.result[k].categories = <<fields[5], fields[6]>>

---------------------------------------------------------------------------
(* Properties of the tasks beside the one a request names (RequestSpec)    *)

\* the requests that name one task
OneTaskRequests == {"update_task", "set_task_status", "close_task", "delete_task"}

\* C32: an update, set-status, close or delete on task id k changes only
\* task k.  Every other task of the next parse has the same id, status,
\* priority, date, due_date, description, categories and closing_remarks as
\* before the operation, and the order of the tasks is unchanged.
C32_OtherTasksUntouched ==
    [][last'.op \in OneTaskRequests =>
          LET before == parse_tasks(Ledger(World))
              after == parse_tasks(Ledger(World)')
          IN  \A i \in DOMAIN before :
                  before[i].id # last'.args.task_id =>
                      /\ i \in DOMAIN after
                      /\ after[i] = before[i]]_vars

---------------------------------------------------------------------------
(* Properties of the task ids (DecodeSpec, RequestSpec)                    *)

\* the ids 0, 1, 2, ... in the order of the list
Numbered(tasks) == \A k \in DOMAIN tasks : tasks[k].id = k - 1

\* C33: parse_tasks numbers the tasks it returns 0, 1, 2, ... in the order
\* of their header lines, with no gaps or repeats, on every parse; and the
\* id that a create operation returns for a new task is the id that task
\* has in the next parse of the ledger.
C33_SequentialIds ==
    /\ [](/\ last.op = "read_tasks_file" => Numbered(last.result)
          /\ Numbered(parse_tasks(Ledger(World))))
    /\ [][(last'.op \in {"create_task", "create_task_api"} /\ last'.result = "ok") =>
              LET before == parse_tasks(Ledger(World))
                  after == parse_tasks(Ledger(World)')
              IN  /\ after # <<>>
                  /\ after[Len(after)].id = MaxId(before) + 1]_vars

---------------------------------------------------------------------------
(* Properties of the fields of the tasks (GateSpec)                        *)

\* C34: in every reachable state of the ledger every task has a status among
\* created, active, closed, deleted and a priority among urgent, normal,
\* low, whichever interface (the MCP tools or the HTTP API) made the
\* creations and updates that led to the state.
C34_StatusAndPriority ==
    \A k \in DOMAIN parse_tasks(Ledger(World)) :
        LET task == parse_tasks(Ledger(World))[k]
        IN  /\ task.status \in STATUS_OPTIONS
            /\ task.priority \in {<<"urgent">>, <<"normal">>, <<"low">>}

\* a list of names none of which holds a delimiter of the header and no two
\* of which are equal when the case is ignored
WellFormedCategories(names) ==
    /\ names # <<>>
    /\ \A i, j \in DOMAIN names : i # j => lower(names[i]) # lower(names[j])
    /\ \A i \in DOMAIN names :
           \A n \in DOMAIN names[i] : names[i][n] \notin {"|", "(", ")"}

\* C35: every task that parse_tasks returns, after any sequence of task and
\* category operations (the deletion or the renaming of a category that
\* tasks use among them), has a list of categories that is not empty (it
\* falls back to [default]), holds no two names equal ignoring case, and
\* holds no name with "|", "(" or ")" in it.
C35_CategoriesWellFormed ==
    LET tasks == parse_tasks(Ledger(World))
    IN  \A k \in DOMAIN tasks : WellFormedCategories(tasks[k].categories)

\* the category of a task has just been renamed: the task was filed under
\* Work, which is now home
C35_Witness ==
    /\ last.op = "rename_category"
    /\ last.result = "ok"
    /\ \E k \in DOMAIN parse_tasks(Ledger(World)) :
           parse_tasks(Ledger(World))[k].categories = <<<<"home">>>>

---------------------------------------------------------------------------
(* Properties of the normalisation of categories (NormalizeSpec)           *)

\* the names of the items of a value, each normalised on its own
ItemNames(values) ==
    [i \in DOMAIN CategoryItems(values) |->
        normalize_category_name(CategoryItems(values)[i])]

\* the place where a name occurs first in a list, the case ignored
FirstPlace(names, name) ==
    CHOOSE i \in DOMAIN names :
        /\ lower(names[i]) = lower(name)
        /\ \A j \in 1 .. i - 1 : lower(names[j]) # lower(name)

\* C36: the normalisation of categories gives a canonical form.  For every
\* list of names, normalize_category_list of the result is the result
\* (idempotence); the result keeps the order of the first occurrences, holds
\* no two names equal ignoring case, and is [default] when no name survives.
C36_CanonicalForm ==
    /\ last.op = "normalize_again" => last.result = last.args
    /\ last.op = "normalize_category_list" =>
           LET names == ItemNames(last.args)
               result == last.result
               survivors == {i \in DOMAIN names : names[i] # <<>>}
           IN  IF survivors = {} THEN result = <<DEFAULT_CATEGORY>>
               ELSE /\ \A k, l \in DOMAIN result :
                           k # l => lower(result[k]) # lower(result[l])
                    /\ {lower(result[k]) : k \in DOMAIN result}
                           = {lower(names[i]) : i \in survivors}
                    /\ \A k \in DOMAIN result :
                           result[k] = names[FirstPlace(names, result[k])]
                    /\ \A k, l \in DOMAIN result :
                           k < l => FirstPlace(names, result[k])
                                        < FirstPlace(names, result[l])

---------------------------------------------------------------------------
(* Properties of the snapshot ids (SnapshotIdSpec)                         *)

SnapshotPrefixes == {"snapshot", "auto", "pre_restore"}

\* C37: allocation of the snapshot ids.  next_snapshot_id(root, prefix)
\* ends and returns an id that names no entry under the snapshot root at
\* the time of the call: the base id <prefix>_<timestamp> when that is free,
\* otherwise <base>_k for the smallest k >= 1 that is free; a creation that
\* runs alone therefore never takes or overwrites a snapshot directory that
\* is there.
C37_FreshSnapshotId ==
    [][\A root \in RecoveryDirs :
           \A d \in snaps'[root] \ snaps[root] :
               LET ids == {e.id : e \in snaps[root]}
                   base == SubSeq(d.id, 1, 3)
               IN  /\ d.id \notin ids
                   /\ Len(d.id) \in {3, 5}
                   /\ base[1] \in SnapshotPrefixes
                   /\ base[2] = "_"
                   /\ base[3] \in {Timestamp(t) : t \in clock .. clock'}
                   /\ Len(d.id) = 5 =>
                          /\ base \in ids
                          /\ d.id[4] = "_"
                          /\ \E k \in 1 .. Cardinality(ids) :
                                 /\ d.id[5] = str(k)
                                 /\ \A j \in 1 .. k - 1 :
                                        base \o <<"_", str(j)>> \in ids]_vars

\* the root held snapshot_0 and snapshot_0_1: the snapshot written in the
\* same second is snapshot_0_2
C37_Witness ==
    /\ last.op = "create_snapshot"
    /\ last.result = "ok"
    /\ \E d \in SnapshotDirs :
           /\ d.id = <<"snapshot", "_", "0", "_", "2">>
           /\ d.mtime >= 0

===========================================================================
